---- MODULE Spec2Model ----
(***************************************************************************)
(* Model of the authenticated request layer of the musicfun tutorial       *)
(* application: baseQuery (token attachment), baseQueryWithReauth (the     *)
(* async-mutex guarded refresh-and-retry wrapper) and the logout mutation. *)
(* The browser runs one event loop: a network response or a user action is *)
(* a macrotask and is taken only when the microtask queue `ready` is       *)
(* empty; continuations of resolved waitForUnlock() promises are           *)
(* microtasks and run in the order in which they were resolved.            *)
(* The variables of a call exist while the call runs; when it returns they *)
(* are dropped and `returned` keeps what the call returned and did.        *)
(***************************************************************************)
EXTENDS Integers, Sequences, FiniteSets, Bags, TLC

(* ---------------------------- bounds ----------------------------------- *)
\* number of data requests the application issues
NReq == 3
\* number of 401 answers the server gives to first attempts
MaxUnauth == 3

DataProcs == 1..NReq
\* every logout is dispatched by a failed refresh, every refresh follows a
\* 401 on a first attempt, so MaxUnauth logout calls can exist at most
LogoutProcs == (NReq + 1)..(NReq + MaxUnauth)
Procs == DataProcs \cup LogoutProcs

(* ---------------------------- values ----------------------------------- *)
AUTH_KEYS == [accessToken |-> "musicfun-access-token",
              refreshToken |-> "musicfun-refresh-token"]

\* localStorage.getItem returns null for a missing key
NoToken == [type |-> "null", gen |-> 0]
AccessTok(g) == [type |-> "access", gen |-> g]
RefreshTok(g) == [type |-> "refresh", gen |-> g]
\* the {accessToken, refreshToken} body of a successful /auth/refresh
TokenPair(g) == [accessToken |-> AccessTok(g), refreshToken |-> RefreshTok(g)]
NoData == [accessToken |-> NoToken, refreshToken |-> NoToken]

NoHeader == [authorization |-> FALSE, bearer |-> NoToken]
Bearer(t) == [authorization |-> TRUE, bearer |-> t]

\* FetchBaseQueryError.status: an HTTP status or a string tag; the code
\* compares it with 401 only, one status of each kind stands for the rest
ErrorStatuses == {"500", "TIMEOUT_ERROR"}
Statuses == {"200", "401"} \cup ErrorStatuses

VARIABLES
  localStorage,   \* the two AUTH_KEYS entries of window.localStorage
  holder,         \* the call that acquired the mutex and has not released it; 0: unlocked
  waiters,        \* promises of mutex.waitForUnlock() not yet resolved, in call order
  ready,          \* microtask queue: resolved waitForUnlock() continuations
  pc,             \* position of every baseQueryWithReauth call
  args,           \* the args of the call (url and body)
  net,            \* HTTP requests in flight: sent, response not yet received
  cache,          \* query cache keys of the API slice that hold data
  first,          \* per running call: status of the answer to its original request
  sends,          \* per running call: how often it issued its own request
  refreshes,      \* per running call: how often it issued /auth/refresh
  waitedOn,       \* per running call: the mutex holder it waited for at line 862
  gate,           \* per running call: outcome of the refresh it waited for
  waitSeq,        \* the running calls that waited at line 862, in the order they began
  returned,       \* the last call that returned: its result and what it did
  lastRefresh,    \* outcome of the last /auth/refresh call that resolved
  issued,         \* generation of the last token pair the server issued
  unauth          \* 401 answers given to first attempts

authVars == <<localStorage, holder, waiters, ready, pc, args, net, cache, first, sends,
              refreshes, waitedOn, gate, waitSeq, returned, lastRefresh,
              issued, unauth>>

\* error display (handleErrors, errorToast)
VARIABLES
  error,          \* the FetchBaseQueryError handed to handleErrors; NoError: none
  errPc,          \* position of the handleErrors call
  toasts,         \* the messages shown to the user by toast(), oldest first
  console         \* the entries written by console.error

errVars == <<error, errPc, toasts, console>>

\* query cache of the API slice (baseApi) and the pages that use it
VARIABLES
  mounted,        \* the components rendered: Header and the page of the route
  queries,        \* the cached query entries, by query cache key
  requests,       \* HTTP requests of queries and mutations in flight: a bag
  timers,         \* per unused cache entry: seconds left until it is removed
  db,             \* the playlists the API server holds
  rolledBack      \* the updatePlaylist that has just failed: its argument and the patches undone

cacheVars == <<mounted, queries, requests, timers, db, rolledBack>>

\* playlists streamed over the socket (fetchPlaylists.onCacheEntryAdded)
VARIABLES
  shown,          \* the page of playlists PlaylistsPage shows; 0: the page is not rendered
  entries,        \* the cached fetchPlaylists entries, by page number
  fetching,       \* the page numbers whose fetchPlaylists request is in flight
  listeners,      \* the callbacks registered on the socket: <<event, page number>>
  playlistsCount, \* the number of playlists the server holds
  events,         \* the 'tracks.playlist-created' events in flight: ids of the playlists
  creating        \* the createPlaylist request: "idle", "sent", or the answer in flight

socketVars == <<shown, entries, fetching, listeners, playlistsCount, events, creating>>

\* the debounced search field (useDebounceValue)
VARIABLES
  search,         \* the value passed to the hook: what the user has typed
  debounced,      \* the state of the hook: what it returns
  handlers,       \* the timeouts pending: the time left and the value captured
  elapsed         \* the time since the value last changed, up to the delay

debounceVars == <<search, debounced, handlers, elapsed>>

\* the tracks loaded page by page (fetchTracks, an infinite query)
VARIABLES
  tracksCount,    \* the number of tracks the server holds
  loadedPages,    \* data.pages with data.pageParams: per page its pageParam and meta
  fetchingPage,   \* the pageParam of the request in flight; 0: isFetching is false
  requestedPages  \* the pageParams of the requests sent, in order; empty: not rendered

tracksVars == <<tracksCount, loadedPages, fetchingPage, requestedPages>>

\* the Pagination component
VARIABLES
  pagination      \* its props currentPage and pagesCount and the pages it renders

\* PlaylistsPage with search and pagination
VARIABLES
  listState,      \* the useState values currentPage, pageSize, search and the debounced search
  listData,       \* data of useFetchPlaylistsQuery: the last result and the args it answers
  listStale,      \* "Playlist" was invalidated and the refetch has not answered
  listServer,     \* the playlists on the server, the newest first
  listIds         \* how many playlists were created

listVars == <<listState, listData, listStale, listServer, listIds>>

\* Login with the OAuth popup
VARIABLES
  clicks,         \* how often the login button was clicked
  popup,          \* the window "oauthPopup": "closed" or "open"
  codesIssued,    \* how many authorization codes the server has issued
  posted,         \* the message events posted to the app's window and not dispatched yet
  onMessage,      \* the receiveMessage listeners on the window, named by the click that added them
  loginCalls      \* the codes login was called with, in the order of the calls

oauthVars == <<clicks, popup, codesIssued, posted, onMessage, loginCalls>>

\* the lessons modelled on their own
lessonVars == <<socketVars, debounceVars, tracksVars, pagination, listVars, oauthVars>>

\* what the steps of one lesson leave alone
exceptSocket == <<oauthVars, listVars, authVars, errVars, cacheVars, debounceVars, tracksVars, pagination>>
exceptDebounce == <<oauthVars, listVars, authVars, errVars, cacheVars, socketVars, tracksVars, pagination>>
exceptTracks == <<oauthVars, listVars, authVars, errVars, cacheVars, socketVars, debounceVars, pagination>>
exceptPagination == <<oauthVars, listVars, authVars, errVars, cacheVars, socketVars, debounceVars, tracksVars>>
exceptList == <<oauthVars, authVars, errVars, cacheVars, socketVars, debounceVars, tracksVars, pagination>>
exceptOAuth == <<authVars, errVars, cacheVars, socketVars, debounceVars, tracksVars, pagination, listVars>>

vars == <<authVars, errVars, cacheVars, lessonVars>>

\* the variables the authenticated request layer does not touch
others == <<errVars, cacheVars, lessonVars>>

\* PlaylistsPage is not rendered, nothing is cached, the user has no playlist
socketIdle ==
  /\ shown = 0
  /\ entries = <<>>
  /\ fetching = {}
  /\ listeners = {}
  /\ playlistsCount = 0
  /\ events = {}
  /\ creating = "idle"

\* the delay of the hook, in steps of the clock
DelayTicks == 3

\* the hook has mounted with an empty search field: its state is the value
\* and the timeout of its first effect is pending
debounceIdle ==
  /\ search = ""
  /\ debounced = ""
  /\ handlers = {[left |-> DelayTicks, value |-> ""]}
  /\ elapsed = 0

\* TracksPage is not rendered and no track is published
tracksIdle ==
  /\ tracksCount = 0
  /\ loadedPages = <<>>
  /\ fetchingPage = 0
  /\ requestedPages = <<>>

\* Pagination is not rendered yet
unrendered(currentPage, pagesCount) ==
  [currentPage |-> currentPage, pagesCount |-> pagesCount, rendered |-> FALSE, pages |-> <<>>]

paginationIdle == pagination = unrendered(1, 1)

\* PlaylistsPage is mounted: useState(1), useState(2), useState(""), no data yet
listIdle ==
  /\ listState = [currentPage |-> 1, pageSize |-> 2, search |-> "", debounceSearch |-> ""]
  /\ listData = [loaded |-> FALSE,
                 args |-> [search |-> "", pageNumber |-> 0, pageSize |-> 0],
                 data |-> <<>>,
                 pagesCount |-> 0]
  /\ listStale = FALSE
  /\ listServer = <<>>
  /\ listIds = 0

\* Login is shown and its button was not clicked
oauthIdle ==
  /\ clicks = 0
  /\ popup = "closed"
  /\ codesIssued = 0
  /\ posted = {}
  /\ onMessage = {}
  /\ loginCalls = <<>>

lessonIdle ==
  socketIdle /\ debounceIdle /\ tracksIdle /\ paginationIdle /\ listIdle /\ oauthIdle

\* no error is handed to handleErrors
NoError == [status |-> [tag |-> "none", code |-> 0]]

errIdle ==
  /\ error = NoError
  /\ errPc = "idle"
  /\ toasts = <<>>
  /\ console = <<>>

\* what the model keeps of the API server
server == <<issued, unauth>>

\* the application is not started: no page rendered, nothing cached
cacheIdle ==
  /\ mounted = {}
  /\ queries = <<>>
  /\ requests = EmptyBag
  /\ timers = <<>>
  /\ db = [title |-> "old"]
  /\ rolledBack = {}

(* ------------------------- baseQuery ----------------------------------- *)
\* the truthiness test dropped: the header is set whatever getItem returned
prepareHeaders_always(ls) == Bearer(ls[AUTH_KEYS.accessToken])

\* prepareHeaders of baseQuery: Authorization is set only for a truthy token
prepareHeaders(ls) ==
  IF ls[AUTH_KEYS.accessToken] # NoToken
    THEN Bearer(ls[AUTH_KEYS.accessToken])
    ELSE NoHeader

\* one fetch issued by baseQuery; the headers are read from localStorage
\* synchronously when baseQuery is called
baseQuery(ls, p, url, attempt, body) ==
  [from |-> p, url |-> url, attempt |-> attempt,
   headers |-> prepareHeaders(ls), body |-> body]

isTokens(data) ==
  data.accessToken # NoToken /\ data.refreshToken # NoToken

\* the refresh path taken on every error instead of on 401 only
isUnauthorized_anyError(status) == status # "200"

\* result.error && result.error.status === 401
isUnauthorized(status) == status = "401"

\* result.error is set for everything but a 2xx answer
isError(status) == status # "200"

(* --------------------------- mutex ------------------------------------- *)
\* the lock test of line 834 dropped: the mutex is never seen as locked
isLocked_never == FALSE

isLocked == holder # 0

Reverse(q) == [i \in 1..Len(q) |-> q[Len(q) + 1 - i]]

\* waiters resolved last-in first-out
release_lifo(before, after) ==
  /\ holder' = 0
  /\ waiters' = <<>>
  /\ ready' = before \o Reverse(waiters) \o after

\* release(): the mutex is unlocked and every waitForUnlock() promise is
\* resolved in the order of the calls; `before` and `after` are continuations
\* scheduled in the same synchronous run, ahead of or behind the waiters
release(before, after) ==
  /\ holder' = 0
  /\ waiters' = <<>>
  /\ ready' = before \o waiters \o after

(* ------------------------ logout mutation ------------------------------ *)
\* the args of a call before it is dispatched
dataArgs == [url |-> "playlists", body |-> NoToken]
noArgs == [url |-> "auth/logout", body |-> NoToken]
initialArgs(p) == IF p \in DataProcs THEN dataArgs ELSE noArgs

\* logout.query(): the body carries the refresh token read at dispatch
logoutArgs(ls) == [url |-> "auth/logout", body |-> ls[AUTH_KEYS.refreshToken]]

\* logout.onQueryStarted after `await queryFulfilled`: runs only when the
\* mutation succeeded; otherwise the await throws and nothing is removed
logoutFulfilled_always(p, status) == p \in LogoutProcs

logoutFulfilled(p, status) == p \in LogoutProcs /\ ~isError(status)

clearedStorage == [k \in DOMAIN localStorage |-> NoToken]

NoReturn == [url |-> "none", status |-> "none", answer |-> "none", handled |-> FALSE,
             first |-> "none", sends |-> 0, refreshes |-> 0, waited |-> FALSE,
             gate |-> "none"]

SeqWithout(q, p) == SelectSeq(q, LAMBDA x : x # p)

\* lines 868-873: the call returns `status` to its caller and the endpoint's
\* lifecycle runs on it.  `ls` is localStorage as the call left it, `f` the
\* status of the answer to its original request, `answer` the status of the
\* last answer to its own request
Finish(p, status, ls, f, answer) ==
  /\ returned' = [url |-> initialArgs(p).url, status |-> status, answer |-> answer,
                  handled |-> (isError(status) /\ status # "401"),
                  first |-> f, sends |-> sends[p], refreshes |-> refreshes[p],
                  waited |-> (waitedOn[p] # 0), gate |-> gate[p]]
  /\ localStorage' = IF logoutFulfilled(p, status) THEN clearedStorage ELSE ls
  /\ cache' = IF logoutFulfilled(p, status) THEN {}
              ELSE IF p \in DataProcs /\ ~isError(status) THEN cache \cup {args[p].url}
              ELSE cache
  /\ first' = [first EXCEPT ![p] = "none"]
  /\ sends' = [sends EXCEPT ![p] = 0]
  /\ refreshes' = [refreshes EXCEPT ![p] = 0]
  /\ waitedOn' = [waitedOn EXCEPT ![p] = 0]
  /\ gate' = [gate EXCEPT ![p] = "none"]
  /\ waitSeq' = SeqWithout(waitSeq, p)

(* ---------------------- baseQueryWithReauth ---------------------------- *)
\* lines 838-844: the body of the refresh call is read when it is issued
refreshArgs(ls) == [url |-> "/auth/refresh", body |-> ls[AUTH_KEYS.refreshToken]]

\* lines 847-848: both tokens of the refresh answer are stored
setTokens(ls, data) ==
  [ls EXCEPT ![AUTH_KEYS.accessToken] = data.accessToken,
             ![AUTH_KEYS.refreshToken] = data.refreshToken]

\* line 829: the original request goes out
SendOriginal(p) ==
  /\ net' = net \cup {baseQuery(localStorage, p, args[p].url, 1, args[p].body)}
  /\ sends' = [sends EXCEPT ![p] = @ + 1]
  /\ pc' = [pc EXCEPT ![p] = "first"]

\* the module-level mutex is unlocked and nothing is in flight; the server
\* has issued one token pair
authIdle ==
  /\ holder = 0
  /\ waiters = <<>>
  /\ ready = <<>>
  /\ pc = [p \in Procs |-> "idle"]
  /\ args = [p \in Procs |-> initialArgs(p)]
  /\ net = {}
  /\ cache = {}
  /\ first = [p \in Procs |-> "none"]
  /\ sends = [p \in Procs |-> 0]
  /\ refreshes = [p \in Procs |-> 0]
  /\ waitedOn = [p \in Procs |-> 0]
  /\ gate = [p \in Procs |-> "none"]
  /\ waitSeq = <<>>
  /\ returned = NoReturn
  /\ lastRefresh = "none"
  /\ issued = 1
  /\ unauth = 0

\* the user is logged in: login.onQueryStarted stored a token pair
authStart ==
  /\ localStorage =
       [k \in {AUTH_KEYS.accessToken, AUTH_KEYS.refreshToken} |->
          IF k = AUTH_KEYS.accessToken THEN TokenPair(1).accessToken
                                       ELSE TokenPair(1).refreshToken]
  /\ authIdle

Init == authStart /\ errIdle /\ cacheIdle /\ lessonIdle

\* a component issues a data request: baseQueryWithReauth is entered and
\* line 826 either passes at once or parks the call on the mutex
StartRequest(p) ==
  /\ p \in DataProcs
  /\ pc[p] = "idle"
  /\ \A q \in DataProcs : q < p => pc[q] # "idle"
  /\ ready = <<>>
  /\ IF isLocked
       THEN /\ waiters' = Append(waiters, p)
            /\ pc' = [pc EXCEPT ![p] = "waitStart"]
            /\ UNCHANGED <<net, sends>>
       ELSE /\ SendOriginal(p)
            /\ UNCHANGED waiters
  /\ UNCHANGED <<localStorage, holder, ready, args, cache, first, refreshes,
                 waitedOn, gate, waitSeq, returned, lastRefresh, server>>
  /\ UNCHANGED others

\* continuation of line 826 after the mutex was released
ResumeStart(p) ==
  /\ ready # <<>>
  /\ p = Head(ready)
  /\ pc[p] = "waitStart"
  /\ ready' = Tail(ready)
  /\ SendOriginal(p)
  /\ UNCHANGED <<localStorage, holder, waiters, args, cache, first, refreshes,
                 waitedOn, gate, waitSeq, returned, lastRefresh, server>>
  /\ UNCHANGED others

\* continuation of line 862: the waiter retries its request (line 864)
ResumeRetry(p) ==
  /\ ready # <<>>
  /\ p = Head(ready)
  /\ pc[p] = "waitRetry"
  /\ ready' = Tail(ready)
  /\ net' = net \cup {baseQuery(localStorage, p, args[p].url, 2, args[p].body)}
  /\ sends' = [sends EXCEPT ![p] = @ + 1]
  /\ gate' = [gate EXCEPT ![p] = lastRefresh]
  /\ pc' = [pc EXCEPT ![p] = "retryW"]
  /\ UNCHANGED <<localStorage, holder, waiters, args, cache, first, refreshes,
                 waitedOn, waitSeq, returned, lastRefresh, server>>
  /\ UNCHANGED others

(* ----------------------------- server ---------------------------------- *)
\* the answers the API can give to /auth/refresh: a new token pair, a 2xx
\* body that is no token pair, or an error (400 for a refresh token that is
\* no string, 401 for one that is expired or revoked)
RefreshAnswers ==
  {[status |-> "200", data |-> TokenPair(issued + 1)],
   [status |-> "200", data |-> NoData]}
  \cup {[status |-> s, data |-> NoData] : s \in (Statuses \ {"200"}) \cup {"400"}}

\* the responses that can arrive for request m.  What the API answers is not
\* constrained by the token the request carries: tokens expire and are
\* revoked at any time, and the transport can fail
Answers(m) ==
  IF m.url = "/auth/refresh"
    THEN RefreshAnswers
    ELSE {[status |-> s, data |-> NoData] :
            s \in {t \in Statuses : (t = "401" /\ m.attempt = 1) => unauth < MaxUnauth}}

\* bookkeeping of the exchange of request m and response r
Exchange(m, r) ==
  /\ issued' = IF m.url = "/auth/refresh" /\ isTokens(r.data) THEN issued + 1 ELSE issued
  /\ unauth' = IF m.url # "/auth/refresh" /\ r.status = "401" /\ m.attempt = 1
                 THEN unauth + 1 ELSE unauth

(* ------------------- baseQueryWithReauth, continued -------------------- *)
\* the lowest unused logout call
FreeLogout == CHOOSE q \in LogoutProcs :
                /\ pc[q] = "idle"
                /\ \A r \in LogoutProcs : pc[r] = "idle" => q <= r

\* lines 836-844: acquire() and the refresh call
StartRefresh(p, m) ==
  /\ holder' = p
  /\ net' = (net \ {m}) \cup
              {baseQuery(localStorage, p, refreshArgs(localStorage).url,
                         0, refreshArgs(localStorage).body)}
  /\ refreshes' = [refreshes EXCEPT ![p] = @ + 1]
  /\ pc' = [pc EXCEPT ![p] = "refresh"]

\* lines 829-866: the answer to the original request arrives
ReceiveFirst(p) ==
  /\ pc[p] = "first"
  /\ ready = <<>>
  /\ \E m \in net : \E r \in Answers(m) :
       /\ m.from = p
       /\ Exchange(m, r)
       /\ IF isUnauthorized(r.status)
            THEN IF ~isLocked
                   THEN /\ StartRefresh(p, m)
                        /\ first' = [first EXCEPT ![p] = r.status]
                        /\ UNCHANGED <<waiters, waitSeq, waitedOn, sends, gate,
                                       localStorage, returned, cache>>
                   ELSE \* line 862: wait for the refresh in progress
                        /\ waiters' = Append(waiters, p)
                        /\ waitSeq' = Append(waitSeq, p)
                        /\ waitedOn' = [waitedOn EXCEPT ![p] = holder]
                        /\ first' = [first EXCEPT ![p] = r.status]
                        /\ pc' = [pc EXCEPT ![p] = "waitRetry"]
                        /\ net' = net \ {m}
                        /\ UNCHANGED <<holder, refreshes, sends, gate,
                                       localStorage, returned, cache>>
            ELSE \* lines 868-873
                 /\ Finish(p, r.status, localStorage, r.status, r.status)
                 /\ pc' = [pc EXCEPT ![p] = "done"]
                 /\ net' = net \ {m}
                 /\ UNCHANGED <<holder, waiters>>
  /\ UNCHANGED <<ready, args, lastRefresh>>
  /\ UNCHANGED others

\* the retry issued before the new tokens are stored
RefreshSucceeded_retryFirst(p, m, r) ==
  /\ net' = (net \ {m}) \cup {baseQuery(localStorage, p, args[p].url, 2, args[p].body)}
  /\ localStorage' = setTokens(localStorage, r.data)
  /\ sends' = [sends EXCEPT ![p] = @ + 1]
  /\ pc' = [pc EXCEPT ![p] = "retryL"]
  /\ lastRefresh' = "ok"
  /\ UNCHANGED <<holder, waiters, ready, args, cache, returned, first, refreshes,
                 waitedOn, gate, waitSeq>>

\* lines 846-850: the refresh returned a token pair; both tokens are stored
\* and the original request is retried while the mutex is still held
RefreshSucceeded(p, m, r) ==
  /\ localStorage' = setTokens(localStorage, r.data)
  /\ net' = (net \ {m}) \cup {baseQuery(localStorage', p, args[p].url, 2, args[p].body)}
  /\ sends' = [sends EXCEPT ![p] = @ + 1]
  /\ pc' = [pc EXCEPT ![p] = "retryL"]
  /\ lastRefresh' = "ok"
  /\ UNCHANGED <<holder, waiters, ready, args, cache, returned, first, refreshes,
                 waitedOn, gate, waitSeq>>

\* release() placed in the success branch only: a failed refresh leaves the
\* mutex locked and the dispatched logout parks on it
RefreshFailed_noRelease(p, m, r) ==
  /\ args' = [args EXCEPT ![p] = initialArgs(p), ![FreeLogout] = logoutArgs(localStorage)]
  /\ pc' = [pc EXCEPT ![p] = "done", ![FreeLogout] = "waitStart"]
  /\ waiters' = Append(waiters, FreeLogout)
  /\ UNCHANGED <<holder, ready>>
  /\ lastRefresh' = "fail"
  /\ Finish(p, first[p], localStorage, first[p], first[p])
  /\ net' = net \ {m}

\* the answer to the refresh call assigned to `result`: the call returns it
\* and line 869 hands its error to handleErrors
RefreshFailed_resultOfRefresh(p, m, r) ==
  /\ args' = [args EXCEPT ![p] = initialArgs(p), ![FreeLogout] = logoutArgs(localStorage)]
  /\ pc' = [pc EXCEPT ![p] = "done", ![FreeLogout] = "waitStart"]
  /\ \/ release(<<>>, <<FreeLogout>>)
     \/ release(<<FreeLogout>>, <<>>)
  /\ lastRefresh' = "fail"
  /\ Finish(p, r.status, localStorage, first[p], first[p])
  /\ net' = net \ {m}

\* lines 851-859 and 868-873: the refresh failed; logout is dispatched, the
\* mutex is released and the 401 of the original request is returned.  The
\* logout call enters baseQueryWithReauth on its own; its continuation runs
\* after or before those of the calls already waiting
RefreshFailed(p, m, r) ==
  /\ args' = [args EXCEPT ![p] = initialArgs(p), ![FreeLogout] = logoutArgs(localStorage)]
  /\ pc' = [pc EXCEPT ![p] = "done", ![FreeLogout] = "waitStart"]
  /\ \/ release(<<>>, <<FreeLogout>>)
     \/ release(<<FreeLogout>>, <<>>)
  /\ lastRefresh' = "fail"
  /\ Finish(p, first[p], localStorage, first[p], first[p])
  /\ net' = net \ {m}

\* lines 840-859: the answer to /auth/refresh arrives
ReceiveRefresh(p) ==
  /\ pc[p] = "refresh"
  /\ ready = <<>>
  /\ \E m \in net : \E r \in Answers(m) :
       /\ m.from = p
       /\ Exchange(m, r)
       /\ IF ~isError(r.status) /\ isTokens(r.data)
            THEN RefreshSucceeded(p, m, r)
            ELSE RefreshFailed(p, m, r)
  /\ UNCHANGED others

\* the 401 test applied again to the retry: a rejected retry starts another
\* refresh instead of being returned
ReceiveRetryLeader_again(p) ==
  /\ pc[p] = "retryL"
  /\ ready = <<>>
  /\ \E m \in net : \E r \in Answers(m) :
       /\ m.from = p
       /\ Exchange(m, r)
       /\ IF r.status = "401"
            THEN /\ StartRefresh(p, m)
                 /\ UNCHANGED <<waiters, ready, localStorage, returned, cache, args,
                                first, sends, waitedOn, gate, waitSeq>>
            ELSE /\ net' = net \ {m}
                 /\ release(<<>>, <<>>)
                 /\ Finish(p, r.status, localStorage, first[p], r.status)
                 /\ pc' = [pc EXCEPT ![p] = "done"]
                 /\ args' = [args EXCEPT ![p] = initialArgs(p)]
  /\ UNCHANGED lastRefresh
  /\ UNCHANGED others

\* lines 850-873: the leader's retry is answered, the mutex is released
ReceiveRetryLeader(p) ==
  /\ pc[p] = "retryL"
  /\ ready = <<>>
  /\ \E m \in net : \E r \in Answers(m) :
       /\ m.from = p
       /\ Exchange(m, r)
       /\ net' = net \ {m}
       /\ release(<<>>, <<>>)
       /\ Finish(p, r.status, localStorage, first[p], r.status)
  /\ pc' = [pc EXCEPT ![p] = "done"]
  /\ args' = [args EXCEPT ![p] = initialArgs(p)]
  /\ UNCHANGED lastRefresh
  /\ UNCHANGED others

\* the waiter's retry handled like a first attempt: a 401 starts a refresh
ReceiveRetryWaiter_reauth(p) ==
  /\ pc[p] = "retryW"
  /\ ready = <<>>
  /\ \E m \in net : \E r \in Answers(m) :
       /\ m.from = p
       /\ Exchange(m, r)
       /\ IF r.status = "401" /\ ~isLocked
            THEN /\ StartRefresh(p, m)
                 /\ UNCHANGED <<localStorage, returned, cache, args, first, sends,
                                waitedOn, gate, waitSeq>>
            ELSE /\ net' = net \ {m}
                 /\ Finish(p, r.status, localStorage, first[p], r.status)
                 /\ pc' = [pc EXCEPT ![p] = "done"]
                 /\ args' = [args EXCEPT ![p] = initialArgs(p)]
                 /\ UNCHANGED holder
  /\ UNCHANGED <<waiters, ready, lastRefresh>>
  /\ UNCHANGED others

\* lines 864-873: a waiter's retry is answered
ReceiveRetryWaiter(p) ==
  /\ pc[p] = "retryW"
  /\ ready = <<>>
  /\ \E m \in net : \E r \in Answers(m) :
       /\ m.from = p
       /\ Exchange(m, r)
       /\ net' = net \ {m}
       /\ Finish(p, r.status, localStorage, first[p], r.status)
  /\ pc' = [pc EXCEPT ![p] = "done"]
  /\ args' = [args EXCEPT ![p] = initialArgs(p)]
  /\ UNCHANGED <<holder, waiters, ready, lastRefresh>>
  /\ UNCHANGED others

Next ==
  \/ \E p \in DataProcs : StartRequest(p)
  \/ \E p \in Procs : ResumeStart(p)
  \/ \E p \in Procs : ResumeRetry(p)
  \/ \E p \in Procs : ReceiveFirst(p)
  \/ \E p \in Procs : ReceiveRefresh(p)
  \/ \E p \in Procs : ReceiveRetryLeader(p)
  \/ \E p \in Procs : ReceiveRetryWaiter(p)

Spec == Init /\ [][Next]_vars

\* the event loop runs every queued continuation, and every fetch settles:
\* it resolves with a response or rejects (a tagged error)
Progress ==
  \E p \in Procs :
    \/ ResumeStart(p)
    \/ ResumeRetry(p)
    \/ ReceiveFirst(p)
    \/ ReceiveRefresh(p)
    \/ ReceiveRetryLeader(p)
    \/ ReceiveRetryWaiter(p)

LiveSpec == Spec /\ WF_vars(Progress)

(* ======================= error display ================================ *)
\* trimToMaxLength(str, maxLength = 100)
maxLength == 100
\* how far beyond maxLength the details of the error bodies go
MaxOver == 2

\* JavaScript values: a string is the sequence of its characters
Undefined == [t |-> "undefined"]
Null == [t |-> "null"]
Num == [t |-> "number"]
Str(chars) == [t |-> "string", chars |-> chars]
Arr(items) == [t |-> "array", items |-> items]
Obj(fields) == [t |-> "object", fields |-> fields]

\* JSON.stringify(value): undefined for undefined, else the serialization
stringify(value) == IF value = Undefined THEN Undefined ELSE [t |-> "json", of |-> value]

ServerErrorText == Str(<<"S", "e", "r", "v", "e", "r", " ", "e", "r", "r", "o", "r", " ", "o", "c", "c", "u", "r", "r", "e", "d", ".", " ", "P", "l", "e", "a", "s", "e", " ", "t", "r", "y", " ", "a", "g", "a", "i", "n", " ", "l", "a", "t", "e", "r", ".">>)
SomeErrorText == Str(<<"S", "o", "m", "e", " ", "e", "r", "r", "o", "r", " ", "o", "c", "c", "u", "r", "r", "e", "d">>)
refreshTokenWord == <<"r", "e", "f", "r", "e", "s", "h", "T", "o", "k", "e", "n">>

Pad(n) == [i \in 1..n |-> "x"]

\* str.includes(word)
includes(str, word) ==
  \E i \in 1..(Len(str) - Len(word) + 1) : SubSeq(str, i, i + Len(word) - 1) = word

trimToMaxLength(str) ==
  IF Len(str) > maxLength THEN SubSeq(str, 1, maxLength - 3) \o <<".", ".", ".">> ELSE str

\* `property in value` for typeof value === "object" && value !== null
hasProperty(value, property) ==
  value.t = "object" /\ property \in DOMAIN value.fields

\* value[property] of a value that is neither null nor undefined
get(value, property) ==
  IF hasProperty(value, property) THEN value.fields[property] ELSE Undefined

isErrorWithProperty(value, property) ==
  /\ value.t \in {"object", "array"}
  /\ hasProperty(value, property)
  /\ get(value, property).t = "string"

\* the conjuncts of isErrorWithDetailArray before errors[0].detail is read
hasErrorsArray(value) ==
  /\ value.t \in {"object", "array"}
  /\ hasProperty(value, "errors")
  /\ get(value, "errors").t = "array"
  /\ Len(get(value, "errors").items) > 0

\* errors[0].detail is read from null or undefined: a TypeError is thrown
detailThrows(value) ==
  hasErrorsArray(value) /\ get(value, "errors").items[1].t \in {"null", "undefined"}

isErrorWithDetailArray(value) ==
  /\ hasErrorsArray(value)
  /\ ~detailThrows(value)
  /\ get(get(value, "errors").items[1], "detail").t = "string"

firstDetail(value) == get(get(value, "errors").items[1], "detail").chars

Nothing == [thrown |-> FALSE, toasts |-> <<>>, console |-> <<>>]
TypeError == [thrown |-> TRUE, toasts |-> <<>>, console |-> <<>>]

\* errorToast(message, error): the message is shown; message and error are
\* logged when an error is passed
errorToast(message, err) ==
  [thrown |-> FALSE,
   toasts |-> <<message>>,
   console |-> IF err # NoError THEN <<[message |-> message, error |-> err]>> ELSE <<>>]

\* case 400 and 403 of handleErrors
validationError(err) ==
  IF detailThrows(err.data) THEN TypeError
  ELSE IF isErrorWithDetailArray(err.data)
    THEN errorToast(Str(trimToMaxLength(firstDetail(err.data))), NoError)
    ELSE errorToast(stringify(err.data), NoError)

\* case 400 as improved for refresh errors
badRequest(err) ==
  IF detailThrows(err.data) THEN TypeError
  ELSE IF isErrorWithDetailArray(err.data)
    THEN IF includes(firstDetail(err.data), refreshTokenWord)
           THEN Nothing
           ELSE errorToast(Str(trimToMaxLength(firstDetail(err.data))), NoError)
    ELSE errorToast(stringify(err.data), NoError)

\* case 404 (property "error") and case 429 (property "message")
propertyError(err, property) ==
  IF isErrorWithProperty(err.data, property)
    THEN errorToast(get(err.data, property), NoError)
    ELSE errorToast(stringify(err.data), NoError)

\* the body of the response shown in place of the generic text
serverError_raw(err) == errorToast(stringify(err.data), err)

\* the 500..599 branch of default
serverError(err) == errorToast(ServerErrorText, err)

handleErrors(err) ==
  IF err = NoError THEN Nothing
  ELSE IF err.status.tag # "http" THEN errorToast(err.error, NoError)
  ELSE IF err.status.code = 400 THEN badRequest(err)
  ELSE IF err.status.code = 403 THEN validationError(err)
  ELSE IF err.status.code = 404 THEN propertyError(err, "error")
  ELSE IF err.status.code = 429 THEN propertyError(err, "message")
  ELSE IF err.status.code >= 500 /\ err.status.code < 600 THEN serverError(err)
  ELSE errorToast(SomeErrorText, NoError)

(* ---------------------------- inputs ----------------------------------- *)
DetailLengths == {0, 1, maxLength - 3, maxLength - 1, maxLength}
                   \cup ((maxLength + 1)..(maxLength + MaxOver))

Details == {Pad(n) : n \in DetailLengths}
             \cup {refreshTokenWord \o Pad(n) : n \in {0, 1}}
             \cup {Pad(n) \o refreshTokenWord : n \in {1, maxLength}}

WithDetail(d) == Obj([errors |-> Arr(<<Obj([detail |-> Str(d)])>>)])

ErrorBodies ==
  {Undefined, Null, Str(Pad(1)), Arr(<<>>),
   Obj([message |-> Str(Pad(1))]),
   Obj([message |-> Num]),
   Obj([error |-> Str(Pad(1))]),
   Obj([errors |-> Str(Pad(1))]),
   Obj([errors |-> Arr(<<>>)]),
   Obj([errors |-> Arr(<<Null>>)]),
   Obj([errors |-> Arr(<<Num>>)]),
   Obj([errors |-> Arr(<<Obj([title |-> Str(Pad(1))])>>)]),
   Obj([errors |-> Arr(<<Obj([detail |-> Num])>>)]),
   Obj([errors |-> Arr(<<Obj([detail |-> Str(Pad(1))]), Obj([detail |-> Str(Pad(0))])>>)])}
  \cup {WithDetail(d) : d \in Details}

HttpCodes == {400, 403, 404, 418, 429, 499, 500, 503, 599, 600}
ErrorTags == {"FETCH_ERROR", "PARSING_ERROR", "TIMEOUT_ERROR", "CUSTOM_ERROR"}

\* the errors line 869 hands to handleErrors: every FetchBaseQueryError but 401
ErrorInputs ==
  {[status |-> [tag |-> "http", code |-> c], data |-> b, error |-> Undefined] :
     c \in HttpCodes, b \in ErrorBodies}
  \cup {[status |-> [tag |-> g, code |-> 0], data |-> Undefined, error |-> Str(Pad(1))] :
          g \in ErrorTags}

ErrInit ==
  /\ authStart
  /\ cacheIdle
  /\ lessonIdle
  /\ error \in ErrorInputs
  /\ errPc = "call"
  /\ toasts = <<>>
  /\ console = <<>>

\* lines 869-871: handleErrors(result.error) runs
HandleErrors ==
  /\ errPc = "call"
  /\ LET out == handleErrors(error) IN
       /\ toasts' = toasts \o out.toasts
       /\ console' = console \o out.console
       /\ errPc' = IF out.thrown THEN "thrown" ELSE "returned"
  /\ UNCHANGED <<error, authVars, cacheVars, lessonVars>>

ErrNext == HandleErrors

ErrSpec == ErrInit /\ [][ErrNext]_vars

(* ========================== query cache ================================ *)
\* HTTP requests of queries and mutations that may be in flight together
MaxRequests == 2
\* baseApi: keepUnusedDataFor, in seconds
keepUnusedDataFor == 5

tagTypes == {"Playlist", "Auth"}

QueryEndpoints == {"fetchPlaylists", "getMe"}
MutationEndpoints == {"createPlaylist", "deletePlaylist", "updatePlaylist", "login"}
\* the mutations the user runs
Edits == {"updatePlaylist"}

providesTags_allPlaylist(endpointName) ==
  IF endpointName \in QueryEndpoints THEN {"Playlist"} ELSE {}

providesTags(endpointName) ==
  CASE endpointName = "fetchPlaylists" -> {"Playlist"}
    [] endpointName = "getMe" -> {"Auth"}
    [] OTHER -> {}

invalidatesTags(endpointName) ==
  IF endpointName \in {"createPlaylist", "deletePlaylist", "updatePlaylist"}
    THEN {"Playlist"}
    ELSE {}

\* a JavaScript number
Number(n) == [t |-> "number", n |-> n]

\* FetchPlaylistsArgs: every property is optional; a property that is
\* missing reads as undefined
ArgNames == {"pageNumber", "pageSize", "search", "userId"}
NoArgs == [n \in ArgNames |-> Undefined]
\* PlaylistsPage: pageNumber, pageSize and search as the page starts
PageArgs ==
  [NoArgs EXCEPT !["pageNumber"] = Number(1), !["pageSize"] = Number(2), !["search"] = Str(<<>>)]
UserArgs(userId) == [NoArgs EXCEPT !["userId"] = userId]

\* the query cache key: the endpoint name and the serialized arguments;
\* JSON.stringify leaves out the properties that are undefined
serializeQueryArgs(endpointName, queryArgs) ==
  [endpointName |-> endpointName,
   queryArgs |-> {<<n, queryArgs[n]>> : n \in {m \in ArgNames : queryArgs[m] # Undefined}}]

\* ---- the API server: playlists ----
Titles == {"old", "new"}
TheUser == Str(<<"1">>)
\* the playlist the user edits
Edited == "p1"

playlist(id, d) ==
  [id |-> id,
   attributes |-> [title |-> IF id = Edited THEN d.title ELSE "other",
                   addedAt |-> id]]

SeqMap(Op(_), ids) == [i \in 1..Len(ids) |-> Op(ids[i])]

\* GET playlists: pageSize playlists a page; with userId the playlists of
\* that user
PlaylistsResponse(params, d) ==
  LET all == <<Edited, "p2", "p3">>
      mine == <<Edited>>
      paged == params["pageNumber"] # Undefined /\ params["pageSize"] # Undefined
      from == IF paged THEN (params["pageNumber"].n - 1) * params["pageSize"].n + 1 ELSE 1
      last == IF paged THEN from + params["pageSize"].n - 1 ELSE Len(all)
      to == IF last > Len(all) THEN Len(all) ELSE last
      ids == IF params["userId"] # Undefined THEN mine ELSE SubSeq(all, from, to)
      item(id) == playlist(id, d)
  IN [data |-> SeqMap(item, ids)]

\* GET auth/me
MeResponse == [userId |-> TheUser, login |-> "user"]

\* ---- the pages and their query hooks ----
\* the pages of Routing; TracksPage uses neither getMe nor fetchPlaylists
Pages == {"MainPage", "ProfilePage", "PlaylistsPage", "TracksPage"}
\* Header is rendered beside every page
Components == Pages \cup {"Header"}

Use(endpointName, originalArgs) == [endpointName |-> endpointName, originalArgs |-> originalArgs]
keyOf(use) == serializeQueryArgs(use.endpointName, use.originalArgs)

\* useGetMeQuery(): the argument is void
MeKey == serializeQueryArgs("getMe", NoArgs)
\* meResponse?.userId
hasMe(q) == MeKey \in DOMAIN q /\ q[MeKey].data # Undefined

\* the queries a page subscribes to when it renders; ProfilePage skips
\* the playlists query while meResponse?.userId is undefined
hooks_ownArgs(c, q) ==
  CASE c \in {"MainPage", "Header"} -> {Use("getMe", NoArgs)}
    [] c = "ProfilePage" -> {Use("getMe", UserArgs(TheUser))}
    [] c = "PlaylistsPage" -> {Use("fetchPlaylists", PageArgs)}
    [] OTHER -> {}

hooks(c, q) ==
  CASE c \in {"MainPage", "Header"} -> {Use("getMe", NoArgs)}
    [] c = "ProfilePage" ->
         {Use("getMe", NoArgs)}
           \cup (IF hasMe(q) THEN {Use("fetchPlaylists", UserArgs(q[MeKey].data.userId))} ELSE {})
    [] c = "PlaylistsPage" -> {Use("fetchPlaylists", PageArgs)}
    [] OTHER -> {}

uses(m, q) == UNION {hooks(c, q) : c \in m}

\* the subscribers of a cache entry
subscribers(k, m, q) == {c \in m : \E u \in hooks(c, q) : keyOf(u) = k}

\* ---- the cache ----
\* a query request as baseQuery sends it
QueryRequest(use, ls) ==
  [kind |-> "query", endpointName |-> use.endpointName, arg |-> use.originalArgs,
   headers |-> prepareHeaders(ls)]

\* an entry whose first request is in flight
PendingEntry(use) == [status |-> "pending", originalArgs |-> use.originalArgs, data |-> Undefined]

\* the requests of the query with key k that are in flight
fetches(k, reqs) ==
  LET S == {r \in BagToSet(reqs) :
              r.kind = "query" /\ serializeQueryArgs(r.endpointName, r.arg) = k}
  IN BagCardinality([r \in S |-> reqs[r]])

\* a new subscription starts a request when no request of the key is in
\* flight and the key has no entry or its entry holds an error and no data;
\* otherwise it is served by the cache or by the request in flight
startsRequest_always(use, q, reqs) == TRUE

startsRequest(use, q, reqs) ==
  /\ fetches(keyOf(use), reqs) = 0
  /\ \/ keyOf(use) \notin DOMAIN q
     \/ q[keyOf(use)].status = "rejected" /\ q[keyOf(use)].data = Undefined

\* the removal of an unused entry stays pending while nobody subscribes
keepsTimer_subscribed(k, subs) == TRUE

keepsTimer(k, subs) == subs = {}

\* the subscriptions of the page rendered, each a pair of the component and the query
subscriptions(m, q) == UNION {{<<c, u>> : u \in hooks(c, q)} : c \in m}

\* an invalidated entry whose request is in flight is not requested again
coalesces_never(k, reqs) == FALSE

coalesces(k, reqs) == fetches(k, reqs) > 0

\* the entries that provide one of the tags
invalidated(tags, q) == {k \in DOMAIN q : providesTags(k.endpointName) \cap tags # {}}

\* the state has changed and the pages have rendered: the invalidated
\* entries in use are requested again, those not in use are removed, and
\* the query hooks subscribe and unsubscribe.
\* q: the cache entries, reqs: the requests in flight, before that;
\* tags: the tags invalidated; ls: localStorage when the requests are sent
Settled(m, q, reqs, tags, ls) ==
  LET stale == invalidated(tags, q)
      kept == {k \in DOMAIN q : k \in stale => subscribers(k, m, q) # {}}
      q0 == [k \in kept |-> q[k]]
      refetched == {Use(k.endpointName, q0[k].originalArgs) :
                      k \in {j \in stale \cap kept : ~coalesces(j, reqs)}}
      fresh == {sub[2] : sub \in subscriptions(m, q0) \ subscriptions(mounted, queries)}
      started == refetched \cup {u \in fresh : startsRequest(u, q0, reqs)}
      created == {u \in fresh : keyOf(u) \notin kept}
      useOf(k) == CHOOSE u \in created : keyOf(u) = k
      q1 == [k \in kept \cup {keyOf(u) : u \in created} |->
               IF k \notin kept THEN PendingEntry(useOf(k))
               ELSE IF \E u \in started : keyOf(u) = k THEN [q0[k] EXCEPT !.status = "pending"]
               ELSE q0[k]]
      unused(k) == subscribers(k, m, q1) = {}
  IN /\ BagCardinality(reqs) + Cardinality(started) <= MaxRequests
     /\ mounted' = m
     /\ queries' = q1
     /\ requests' = reqs (+) SetToBag({QueryRequest(u, ls) : u \in started})
     /\ timers' = [k \in {j \in DOMAIN q1 :
                            \/ j \in DOMAIN timers /\ keepsTimer(j, subscribers(j, m, q1))
                            \/ j \notin DOMAIN timers /\ unused(j)} |->
                     IF k \in DOMAIN timers THEN timers[k] ELSE keepUnusedDataFor]

\* the pages have rendered and no tag was invalidated
Rendered(m, q, reqs) == Settled(m, q, reqs, {}, localStorage)

\* the requests in flight without one copy of r
Answered(reqs, r) == reqs (-) SetToBag({r})

\* the variables of the authenticated request layer but localStorage, issued
authRest == <<holder, waiters, ready, pc, args, net, cache, first, sends,
              refreshes, waitedOn, gate, waitSeq, returned, lastRefresh, unauth>>

\* the user goes to another route: the page shown is unmounted and the
\* page of the route is mounted
Navigate(c) ==
  /\ c \notin mounted
  /\ Rendered({"Header", c}, queries, requests)
  /\ UNCHANGED <<db, rolledBack, authVars, errVars, lessonVars>>

\* a second passes
Tick ==
  /\ DOMAIN timers # {}
  /\ \A k \in DOMAIN timers : timers[k] > 0
  /\ timers' = [k \in DOMAIN timers |-> timers[k] - 1]
  /\ UNCHANGED <<mounted, queries, requests, db, rolledBack, authVars, errVars, lessonVars>>

Without(f, k) == [j \in DOMAIN f \ {k} |-> f[j]]

\* the timer of an unused entry fires: the entry is removed
RemoveUnused(k) ==
  /\ k \in DOMAIN timers
  /\ timers[k] = 0
  /\ queries' = Without(queries, k)
  /\ timers' = Without(timers, k)
  /\ UNCHANGED <<mounted, requests, db, rolledBack, authVars, errVars, lessonVars>>

\* what the server answers to a query
response(request, d) ==
  IF request.endpointName = "getMe" THEN MeResponse ELSE PlaylistsResponse(request.arg, d)

\* the response of a query arrives: the entry takes the data, also when
\* it was removed meanwhile; an error leaves the data the entry has
QueryAnswers(r, ok) ==
  /\ BagIn(r, requests)
  /\ r.kind = "query"
  /\ LET k == serializeQueryArgs(r.endpointName, r.arg)
         q1 == IF ok
                 THEN [j \in DOMAIN queries \cup {k} |->
                         IF j = k THEN [status |-> "fulfilled", originalArgs |-> r.arg,
                                        data |-> response(r, db)]
                                  ELSE queries[j]]
               ELSE IF k \in DOMAIN queries THEN [queries EXCEPT ![k].status = "rejected"]
               ELSE queries
     IN Rendered(mounted, q1, Answered(requests, r))
  /\ UNCHANGED <<db, rolledBack, authVars, errVars, lessonVars>>

\* ---- mutations ----
\* the logins the user performs
MaxLogins == 1

\* the arguments the forms pass to the mutation hooks
MutationArgs(endpointName) ==
  CASE endpointName = "updatePlaylist" -> {[playlistId |-> Edited, body |-> [title |-> t]] : t \in Titles \ {"old"}}
    [] endpointName = "login" -> {[code |-> "code"]}

\* ---- optimistic update of updatePlaylist ----
\* { ...attributes, ...body }
spread(attributes, body) ==
  [f \in DOMAIN attributes \cup DOMAIN body |->
     IF f \in DOMAIN body THEN body[f] ELSE attributes[f]]

\* state.data.findIndex((playlist) => playlist.id === playlistId); 0 for -1
findIndex(items, playlistId) ==
  IF \E i \in 1..Len(items) : items[i].id = playlistId
    THEN CHOOSE i \in 1..Len(items) :
           items[i].id = playlistId /\ \A j \in 1..(i - 1) : items[j].id # playlistId
    ELSE 0

\* the updateRecipe of updatePlaylist.onQueryStarted
updateRecipe(state, playlistId, body) ==
  LET index == findIndex(state.data, playlistId) IN
    IF index # 0
      THEN [state EXCEPT !.data[index].attributes = spread(@, body)]
      ELSE state

\* selectCachedArgsForQuery(getState(), endpointName)
selectCachedArgsForQuery(q, endpointName) ==
  {q[k].originalArgs : k \in {j \in DOMAIN q : j.endpointName = endpointName}}

\* the arguments onQueryStarted passes to updateQueryData for a cached arg
patchArgs(arg) ==
  [NoArgs EXCEPT !["pageNumber"] = arg["pageNumber"],
                 !["pageSize"] = arg["pageSize"],
                 !["search"] = arg["search"]]

\* the cache keys updateQueryData finds an entry with data for
patchedKeys(q) ==
  {k \in {serializeQueryArgs("fetchPlaylists", patchArgs(arg)) :
            arg \in selectCachedArgsForQuery(q, "fetchPlaylists")} :
     k \in DOMAIN q /\ q[k].data # Undefined}

\* patchResults: per entry patched the data it held before
patchResultsOf(q) == {[queryCacheKey |-> k, previous |-> q[k].data] : k \in patchedKeys(q)}

\* updatePlaylist.onQueryStarted before `await queryFulfilled`
patched(q, arg) ==
  [k \in DOMAIN q |->
     IF k \in patchedKeys(q)
       THEN [q[k] EXCEPT !.data = updateRecipe(@, arg.playlistId, arg.body)]
       ELSE q[k]]

\* patchResult.undo(): the entry, if still cached, gets back the data it
\* held when it was patched
undo(q, patchResult) ==
  IF patchResult.queryCacheKey \in DOMAIN q
    THEN [q EXCEPT ![patchResult.queryCacheKey].data = patchResult.previous]
    ELSE q

\* catch: patchResults.forEach((patchResult) => patchResult.undo())
undone_nothing(q, patchResults) == q

undone(q, patchResults) ==
  [k \in DOMAIN q |->
     IF \E pr \in patchResults : pr.queryCacheKey = k
       THEN undo(q, CHOOSE pr \in patchResults : pr.queryCacheKey = k)[k]
       ELSE q[k]]

MutationRequest(endpointName, arg, ls, patchResults) ==
  [kind |-> "mutation", endpointName |-> endpointName, arg |-> arg,
   headers |-> prepareHeaders(ls), patchResults |-> patchResults]

loginsInFlight ==
  BagCardinality([r \in {x \in BagToSet(requests) : x.endpointName = "login"} |-> requests[r]])

\* a form calls a mutation hook: onQueryStarted runs up to
\* `await queryFulfilled` and the request is sent
StartMutation(endpointName, arg) ==
  /\ mounted # {}
  /\ BagCardinality(requests) < MaxRequests
  /\ endpointName = "login" => issued + loginsInFlight <= MaxLogins
  /\ LET optimistic == endpointName = "updatePlaylist"
         patchResults == IF optimistic THEN patchResultsOf(queries) ELSE {}
     IN /\ queries' = IF optimistic THEN patched(queries, arg) ELSE queries
        /\ requests' = requests (+)
                         SetToBag({MutationRequest(endpointName, arg, localStorage, patchResults)})
  /\ UNCHANGED <<mounted, timers, db, rolledBack, authVars, errVars, lessonVars>>

\* what the server does with a mutation it accepts
applied(request, d) ==
  IF request.endpointName = "updatePlaylist"
    THEN [d EXCEPT !.title = request.arg.body.title]
    ELSE d

\* login.onQueryStarted: after queryFulfilled the tokens are saved, then
\* "Auth" is invalidated
loginStored_afterInvalidate(data, ls) == ls

loginStored(data, ls) == setTokens(ls, data)

\* the response of a mutation arrives
MutationAnswers(r, ok) ==
  /\ BagIn(r, requests)
  /\ r.kind = "mutation"
  /\ LET isLogin == r.endpointName = "login"
         data == TokenPair(issued + 1)
         saved == IF isLogin /\ ok THEN setTokens(localStorage, data) ELSE localStorage
         tags == IF isLogin THEN (IF ok THEN {"Auth"} ELSE {}) ELSE invalidatesTags(r.endpointName)
         failed == r.endpointName = "updatePlaylist" /\ ~ok
     IN /\ db' = IF ok THEN applied(r, db) ELSE db
        /\ localStorage' = saved
        /\ issued' = IF isLogin /\ ok THEN issued + 1 ELSE issued
        /\ rolledBack' = IF failed THEN {[arg |-> r.arg, patchResults |-> r.patchResults]}
                          ELSE {}
        /\ Settled(mounted, IF failed THEN undone(queries, r.patchResults) ELSE queries,
                   Answered(requests, r), tags,
                   IF isLogin /\ ok THEN loginStored(data, localStorage) ELSE localStorage)
  /\ UNCHANGED <<authRest, errVars, lessonVars>>

\* the playlists are shown and edited
CacheNext ==
  \/ \E c \in Pages : Navigate(c)
  \/ \E r \in BagToSet(requests), ok \in BOOLEAN : QueryAnswers(r, ok) \/ MutationAnswers(r, ok)
  \/ \E e \in Edits : \E a \in MutationArgs(e) : StartMutation(e, a)

CacheInit == authStart /\ errIdle /\ cacheIdle /\ lessonIdle

CacheSpec == CacheInit /\ [][CacheNext]_vars

\* the user logs in anew while the pages are shown
LoginNext ==
  \/ \E c \in Pages : Navigate(c)
  \/ \E r \in BagToSet(requests), ok \in BOOLEAN : QueryAnswers(r, ok) \/ MutationAnswers(r, ok)
  \/ \E a \in MutationArgs("login") : StartMutation("login", a)

\* the user is logged out: logout.onQueryStarted removed both tokens
LoginInit ==
  /\ localStorage = [k \in {AUTH_KEYS.accessToken, AUTH_KEYS.refreshToken} |-> NoToken]
  /\ authIdle
  /\ errIdle
  /\ cacheIdle
  /\ lessonIdle

LoginSpec == LoginInit /\ [][LoginNext]_vars

\* the routes taken while time passes: a page without a query, a page that
\* reads the profile and the page of the playlists
Visited == {"TracksPage", "MainPage", "PlaylistsPage"}

\* the pages are shown and left and a playlist is edited while time passes
TimedNext ==
  \/ \E c \in Visited : Navigate(c)
  \/ Tick
  \/ \E k \in DOMAIN timers : RemoveUnused(k)
  \/ \E r \in BagToSet(requests), ok \in BOOLEAN : QueryAnswers(r, ok) \/ MutationAnswers(r, ok)
  \/ \E e \in Edits : \E a \in MutationArgs(e) : StartMutation(e, a)

TimedSpec == CacheInit /\ [][TimedNext]_vars

(* ==================== playlists over the socket ======================= *)
\* the playlists the user may own
MaxPlaylists == 3

\* PlaylistsPage: useState(2)
pageSizeShown == 2

\* the pages of playlists the user looks at
ShownPages == {1, 2}

SOCKET_EVENTS == [PLAYLIST_CREATED |-> "tracks.playlist-created",
                  PLAYLIST_UPDATED |-> "tracks.playlist-updated"]

\* Math.ceil(a / b)
ceil(a, b) == (a + b - 1) \div b

Min(a, b) == IF a < b THEN a ELSE b

\* the ids of the server's playlists, the newest first
newestFirst(n) == [i \in 1..n |-> n + 1 - i]

\* GET playlists?pageNumber&pageSize as the server answers it
playlistsPage(pageNumber, pageSize, n) ==
  [data |-> SubSeq(newestFirst(n), (pageNumber - 1) * pageSize + 1,
                   Min(pageNumber * pageSize, n)),
   meta |-> [totalCount |-> n, pagesCount |-> ceil(n, pageSize), pageSize |-> pageSize]]

\* state.data.pop()
pop(items) == IF items = <<>> THEN items ELSE SubSeq(items, 1, Len(items) - 1)

\* state.data.unshift(item)
unshift(items, item) == <<item>> \o items

\* the recipe of the PLAYLIST_CREATED callback
createdRecipe_noPop(state, newPlaylist) ==
  LET totalCount == state.meta.totalCount + 1 IN
    [data |-> unshift(state.data, newPlaylist),
     meta |-> [state.meta EXCEPT !.totalCount = totalCount,
                                 !.pagesCount = ceil(totalCount, state.meta.pageSize)]]

createdRecipe(state, newPlaylist) ==
  LET totalCount == state.meta.totalCount + 1 IN
    [data |-> unshift(pop(state.data), newPlaylist),
     meta |-> [state.meta EXCEPT !.totalCount = totalCount,
                                 !.pagesCount = ceil(totalCount, state.meta.pageSize)]]

\* a cache entry just added: it holds no data yet
addedEntry == [loaded |-> FALSE, state |-> <<>>]

\* the callbacks onCacheEntryAdded has registered for entry k by the stage
\* it is at: "added" before `await cacheDataLoaded` resolves, "loaded" after
subscribeToEvent_atOnce(k, stage) ==
  {<<SOCKET_EVENTS.PLAYLIST_CREATED, k>>, <<SOCKET_EVENTS.PLAYLIST_UPDATED, k>>}

subscribeToEvent(k, stage) ==
  IF stage = "loaded"
    THEN {<<SOCKET_EVENTS.PLAYLIST_CREATED, k>>, <<SOCKET_EVENTS.PLAYLIST_UPDATED, k>>}
    ELSE {}

\* after `await cacheEntryRemoved`: unsubscribes.forEach((unsubscribe) => unsubscribe())
unsubscribed(ls, removed) == {l \in ls : l[2] \notin removed}

\* PlaylistsPage shows a page of playlists: the hook subscribes to the entry
\* of the page; an entry added waits for its first response
ShowPlaylists(pageNumber) ==
  /\ pageNumber # shown
  /\ \/ pageNumber = 1
     \/ /\ shown \in DOMAIN entries
        /\ entries[shown].loaded
        /\ pageNumber <= entries[shown].state.meta.pagesCount
  /\ shown' = pageNumber
  /\ IF pageNumber \in DOMAIN entries
       THEN /\ entries' = entries
            /\ fetching' = IF entries[pageNumber].loaded THEN fetching
                           ELSE fetching \cup {pageNumber}
            /\ listeners' = listeners
       ELSE /\ entries' = [k \in DOMAIN entries \cup {pageNumber} |->
                             IF k = pageNumber THEN addedEntry ELSE entries[k]]
            /\ fetching' = fetching \cup {pageNumber}
            /\ listeners' = listeners \cup subscribeToEvent(pageNumber, "added")
  /\ UNCHANGED <<playlistsCount, events, creating>>
  /\ UNCHANGED exceptSocket

\* the user leaves PlaylistsPage
HidePlaylists ==
  /\ shown # 0
  /\ shown' = 0
  /\ UNCHANGED <<entries, fetching, listeners, playlistsCount, events, creating>>
  /\ UNCHANGED exceptSocket

\* keepUnusedDataFor: 0: an entry without a subscriber is removed;
\* cacheEntryRemoved resolves and its callbacks are taken off the socket
RemoveEntry(k) ==
  /\ k \in DOMAIN entries
  /\ k # shown
  /\ entries' = [j \in DOMAIN entries \ {k} |-> entries[j]]
  /\ listeners' = unsubscribed(listeners, {k})
  /\ UNCHANGED <<shown, fetching, playlistsCount, events, creating>>
  /\ UNCHANGED exceptSocket

\* the response of fetchPlaylists arrives; a first response resolves
\* cacheDataLoaded; the response for an entry removed meanwhile is dropped
PlaylistsAnswered(k, ok) ==
  /\ k \in fetching
  /\ fetching' = fetching \ {k}
  /\ IF ok /\ k \in DOMAIN entries
       THEN /\ entries' = [entries EXCEPT ![k] =
                             [loaded |-> TRUE,
                              state |-> playlistsPage(k, pageSizeShown, playlistsCount)]]
            /\ listeners' = IF entries[k].loaded THEN listeners
                            ELSE listeners \cup subscribeToEvent(k, "loaded")
       ELSE UNCHANGED <<entries, listeners>>
  /\ UNCHANGED <<shown, playlistsCount, events, creating>>
  /\ UNCHANGED exceptSocket

\* CreatePlaylistForm on PlaylistsPage submits: createPlaylist is sent
CreatePlaylist ==
  /\ shown # 0
  /\ creating = "idle"
  /\ playlistsCount < MaxPlaylists
  /\ creating' = "sent"
  /\ UNCHANGED <<shown, entries, fetching, listeners, playlistsCount, events>>
  /\ UNCHANGED exceptSocket

\* the server handles createPlaylist: it stores the playlist, emits
\* 'tracks.playlist-created' and answers
ServerCreates(ok) ==
  /\ creating = "sent"
  /\ creating' = IF ok THEN "fulfilled" ELSE "rejected"
  /\ playlistsCount' = IF ok THEN playlistsCount + 1 ELSE playlistsCount
  /\ events' = IF ok THEN events \cup {playlistsCount + 1} ELSE events
  /\ UNCHANGED <<shown, entries, fetching, listeners>>
  /\ UNCHANGED exceptSocket

\* the response of createPlaylist arrives: invalidatesTags ["Playlist"]; the
\* entry in use is fetched again, an entry without a subscriber is removed
CreateAnswered ==
  /\ creating \in {"fulfilled", "rejected"}
  /\ creating' = "idle"
  /\ LET removed == DOMAIN entries \ {shown} IN
       /\ entries' = [k \in DOMAIN entries \cap {shown} |-> entries[k]]
       /\ listeners' = unsubscribed(listeners, removed)
       /\ fetching' = fetching \cup (DOMAIN entries \cap {shown})
  /\ UNCHANGED <<shown, playlistsCount, events>>
  /\ UNCHANGED exceptSocket

\* the socket delivers 'tracks.playlist-created': every callback registered
\* for the event runs updateCachedData on its entry
PlaylistCreated(id) ==
  /\ id \in events
  /\ events' = events \ {id}
  /\ entries' = [k \in DOMAIN entries |->
                   IF <<SOCKET_EVENTS.PLAYLIST_CREATED, k>> \in listeners /\ entries[k].loaded
                     THEN [entries[k] EXCEPT !.state = createdRecipe(@, id)]
                     ELSE entries[k]]
  /\ UNCHANGED <<shown, fetching, listeners, playlistsCount, creating>>
  /\ UNCHANGED exceptSocket

SocketNext ==
  \/ \E pageNumber \in ShownPages : ShowPlaylists(pageNumber)
  \/ HidePlaylists
  \/ \E k \in DOMAIN entries : RemoveEntry(k)
  \/ \E k \in fetching, ok \in BOOLEAN : PlaylistsAnswered(k, ok)
  \/ CreatePlaylist
  \/ \E ok \in BOOLEAN : ServerCreates(ok)
  \/ CreateAnswered
  \/ \E id \in events : PlaylistCreated(id)

SocketSpec == Init /\ [][SocketNext]_vars

(* ========================= useDebounceValue ============================ *)
\* what the user types into the search field
Searches == {"", "a", "ab", "abc", "b", "bc"}

\* the cleanup of the effect: clearTimeout(handler)
clearTimeout_never(pending) == pending

clearTimeout(pending) == {}

\* the value changes: the hook re-renders, the cleanup of the last effect
\* clears its timeout and the effect sets a new one
Type(text) ==
  /\ text # search
  /\ search' = text
  /\ handlers' = clearTimeout(handlers) \cup {[left |-> DelayTicks, value |-> text]}
  /\ elapsed' = 0
  /\ UNCHANGED debounced
  /\ UNCHANGED exceptDebounce

\* time passes while no timeout is due
DebounceTick ==
  /\ handlers # {}
  /\ \A h \in handlers : h.left > 0
  /\ handlers' = {[h EXCEPT !.left = @ - 1] : h \in handlers}
  /\ elapsed' = IF elapsed < DelayTicks THEN elapsed + 1 ELSE elapsed
  /\ UNCHANGED <<search, debounced>>
  /\ UNCHANGED exceptDebounce

\* a timeout is due: () => setDebounced(value) runs with the value captured
Timeout(h) ==
  /\ h \in handlers
  /\ h.left = 0
  /\ debounced' = h.value
  /\ handlers' = handlers \ {h}
  /\ UNCHANGED <<search, elapsed>>
  /\ UNCHANGED exceptDebounce

DebounceNext ==
  \/ \E text \in Searches : Type(text)
  \/ DebounceTick
  \/ \E h \in handlers : Timeout(h)

DebounceSpec == Init /\ [][DebounceNext]_vars

\* the clock runs and a timeout that is due fires
DebounceLive ==
  /\ DebounceSpec
  /\ WF_vars(DebounceTick)
  /\ WF_vars(\E h \in handlers : Timeout(h))

(* ===================== fetchTracks, page by page ======================= *)
\* the tracks published in all
MaxTracks == 21

\* the requests of fetchTracks sent in all
MaxFetches == 4

\* query: params.pageSize
tracksPageSize == 10

\* infiniteQueryOptions.initialPageParam
initialPageParam == 1

\* infiniteQueryOptions.getNextPageParam; 0 stands for undefined
getNextPageParam_upTo(lastPage, lastPageParam) ==
  IF lastPageParam <= lastPage.meta.pagesCount THEN lastPageParam + 1 ELSE 0

getNextPageParam(lastPage, lastPageParam) ==
  IF lastPageParam < lastPage.meta.pagesCount THEN lastPageParam + 1 ELSE 0

\* the pageParam fetchNextPage asks for; 0: there is no next page
nextPageParam ==
  IF loadedPages = <<>> THEN 0
  ELSE getNextPageParam(loadedPages[Len(loadedPages)],
                        loadedPages[Len(loadedPages)].pageParam)

hasNextPage == nextPageParam # 0

isFetching == fetchingPage # 0

\* GET playlists/tracks?pageNumber&pageSize&paginationType=offset: the meta
tracksPage(pageParam, n) ==
  [pageParam |-> pageParam,
   meta |-> [pagesCount |-> ceil(n, tracksPageSize), totalCount |-> n]]

\* somebody publishes a track
PublishTrack ==
  /\ tracksCount < MaxTracks
  /\ tracksCount' = tracksCount + 1
  /\ UNCHANGED <<loadedPages, fetchingPage, requestedPages>>
  /\ UNCHANGED exceptTracks

\* TracksPage is rendered: useFetchTracksInfiniteQuery requests the first page
ShowTracks ==
  /\ requestedPages = <<>>
  /\ fetchingPage' = initialPageParam
  /\ requestedPages' = <<initialPageParam>>
  /\ UNCHANGED <<tracksCount, loadedPages>>
  /\ UNCHANGED exceptTracks

\* the button is clicked or the trigger scrolls into view:
\* if (hasNextPage && !isFetching) fetchNextPage()
loadMoreHandler ==
  /\ requestedPages # <<>>
  /\ Len(requestedPages) < MaxFetches
  /\ hasNextPage /\ ~isFetching
  /\ fetchingPage' = nextPageParam
  /\ requestedPages' = Append(requestedPages, nextPageParam)
  /\ UNCHANGED <<tracksCount, loadedPages>>
  /\ UNCHANGED exceptTracks

\* the response of fetchTracks arrives: a page is appended, or the request
\* has failed and data stay as they are
TracksAnswered(ok) ==
  /\ isFetching
  /\ fetchingPage' = 0
  /\ loadedPages' = IF ok THEN Append(loadedPages, tracksPage(fetchingPage, tracksCount))
                    ELSE loadedPages
  /\ UNCHANGED <<tracksCount, requestedPages>>
  /\ UNCHANGED exceptTracks

TracksNext ==
  \/ PublishTrack
  \/ ShowTracks
  \/ loadMoreHandler
  \/ \E ok \in BOOLEAN : TracksAnswered(ok)

TracksSpec == Init /\ [][TracksNext]_vars

(* ========================= getPaginationPages ========================== *)
\* the pages of a list and the page shown
MaxPages == 9

SIBLING_COUNT == 1

\* the item "..." of the result
Ellipsis == 0

Max(a, b) == IF a > b THEN a ELSE b

\* for (let page = leftSibling; page <= rightSibling; page++) pages.push(page)
Range(from, to) == [i \in 1..Max(0, to - from + 1) |-> from + i - 1]

getPaginationPages_noSiblings(currentPage, pagesCount) ==
  IF pagesCount <= 1 THEN <<>>
  ELSE LET leftSibling == Max(2, currentPage)
           rightSibling == Min(pagesCount - 1, currentPage)
       IN <<1>>
          \o (IF leftSibling > 2 THEN <<Ellipsis>> ELSE <<>>)
          \o Range(leftSibling, rightSibling)
          \o (IF rightSibling < pagesCount - 1 THEN <<Ellipsis>> ELSE <<>>)
          \o (IF pagesCount > 1 THEN <<pagesCount>> ELSE <<>>)

getPaginationPages(currentPage, pagesCount) ==
  IF pagesCount <= 1 THEN <<>>
  ELSE LET leftSibling == Max(2, currentPage - SIBLING_COUNT)
           rightSibling == Min(pagesCount - 1, currentPage + SIBLING_COUNT)
       IN <<1>>
          \o (IF leftSibling > 2 THEN <<Ellipsis>> ELSE <<>>)
          \o Range(leftSibling, rightSibling)
          \o (IF rightSibling < pagesCount - 1 THEN <<Ellipsis>> ELSE <<>>)
          \o (IF pagesCount > 1 THEN <<pagesCount>> ELSE <<>>)

\* the props Pagination is rendered with
PaginationProps ==
  {unrendered(currentPage, pagesCount) : currentPage \in 1..MaxPages, pagesCount \in 0..MaxPages}

\* Pagination renders: const pages = getPaginationPages(currentPage, pagesCount)
RenderPagination ==
  /\ ~pagination.rendered
  /\ pagination' = [pagination EXCEPT
                      !.rendered = TRUE,
                      !.pages = getPaginationPages(pagination.currentPage, pagination.pagesCount)]
  /\ UNCHANGED exceptPagination

PaginationInit ==
  /\ authStart /\ errIdle /\ cacheIdle
  /\ socketIdle /\ debounceIdle /\ tracksIdle /\ listIdle /\ oauthIdle
  /\ pagination \in PaginationProps

PaginationSpec == PaginationInit /\ [][RenderPagination]_vars

(* ===================== PlaylistsPage: search, pages ==================== *)
\* the playlists created while the page is shown
MaxListed == 5

\* the titles given to playlists and the texts searched for
ListTitles == {"cat", "dog"}
ListSearches == {"", "cat"}

\* the sizes of the select of Pagination that are chosen
PageSizes == {2, 4}

\* the args of useFetchPlaylistsQuery
listArgs == [search |-> listState.debounceSearch,
             pageNumber |-> listState.currentPage,
             pageSize |-> listState.pageSize]

\* the playlists of the server whose title the search finds
found(playlists, text) == SelectSeq(playlists, LAMBDA pl : text = "" \/ pl.title = text)

\* GET playlists?search&pageNumber&pageSize as the server answers it
fetchPlaylists(queryArg, playlists) ==
  LET all == found(playlists, queryArg.search)
      from == (queryArg.pageNumber - 1) * queryArg.pageSize + 1
      to == Min(queryArg.pageNumber * queryArg.pageSize, Len(all))
  IN [loaded |-> TRUE,
      args |-> queryArg,
      data |-> [i \in 1..Max(0, to - from + 1) |-> all[from + i - 1].id],
      pagesCount |-> ceil(Len(all), queryArg.pageSize)]

\* the prop of Pagination: data?.meta.pagesCount || 1
pagesCountProp ==
  IF listData.loaded /\ listData.pagesCount # 0 THEN listData.pagesCount ELSE 1

\* the response of the query the hook has sent arrives
PlaylistsFetched ==
  /\ \/ ~listData.loaded
     \/ listStale
     \/ listData.args # listArgs
  /\ listData' = fetchPlaylists(listArgs, listServer)
  /\ listStale' = FALSE
  /\ UNCHANGED <<listState, listServer, listIds, exceptList>>

\* a page button of Pagination is clicked
setCurrentPage(page) ==
  /\ LET pages == getPaginationPages(listState.currentPage, pagesCountProp)
     IN \E i \in 1..Len(pages) : pages[i] = page /\ pages[i] # Ellipsis
  /\ page # listState.currentPage
  /\ listState' = [listState EXCEPT !.currentPage = page]
  /\ UNCHANGED <<listData, listStale, listServer, listIds, exceptList>>

searchPlaylistHandler(text) ==
  /\ text # listState.search
  /\ listState' = [listState EXCEPT !.search = text, !.currentPage = 1]
  /\ UNCHANGED <<listData, listStale, listServer, listIds, exceptList>>

\* useDebounceValue(search) hands over the text typed last
DebounceElapsed ==
  /\ listState.debounceSearch # listState.search
  /\ listState' = [listState EXCEPT !.debounceSearch = listState.search]
  /\ UNCHANGED <<listData, listStale, listServer, listIds, exceptList>>

changePageSizeHandler(size) ==
  /\ size # listState.pageSize
  /\ listState' = [listState EXCEPT !.pageSize = size, !.currentPage = 1]
  /\ UNCHANGED <<listData, listStale, listServer, listIds, exceptList>>

\* CreatePlaylistForm is submitted; createPlaylist invalidates "Playlist"
SubmitPlaylist(title) ==
  /\ listIds < MaxListed
  /\ listIds' = listIds + 1
  /\ listServer' = <<[id |-> listIds + 1, title |-> title]>> \o listServer
  /\ listStale' = TRUE
  /\ UNCHANGED <<listState, listData, exceptList>>

\* a playlist of the list shown is deleted; deletePlaylist invalidates "Playlist"
deletePlaylistHandler(playlistId) ==
  /\ listData.loaded
  /\ \E i \in 1..Len(listData.data) : listData.data[i] = playlistId
  /\ listServer' = SelectSeq(listServer, LAMBDA pl : pl.id # playlistId)
  /\ listStale' = TRUE
  /\ UNCHANGED <<listState, listData, listIds, exceptList>>

ListNext ==
  \/ PlaylistsFetched
  \/ \E page \in 1..MaxListed : setCurrentPage(page)
  \/ \E text \in ListSearches : searchPlaylistHandler(text)
  \/ DebounceElapsed
  \/ \E size \in PageSizes : changePageSizeHandler(size)
  \/ \E title \in ListTitles : SubmitPlaylist(title)
  \/ \E playlistId \in 1..MaxListed : deletePlaylistHandler(playlistId)

ListSpec == Init /\ [][ListNext]_vars

(* ======================= Login: the OAuth popup ======================== *)
\* the clicks on the login button and the authorizations granted
MaxClicks == 3
MaxCodes == 2

\* import.meta.env.VITE_DOMAIN_ADDRESS and the origin of any other window
VITE_DOMAIN_ADDRESS == "http://localhost:3000"
OtherOrigin == "http://localhost:9999"

\* event.data without a code
NoCode == 0

\* Login.loginHandler: the popup is opened (the window named "oauthPopup" is
\* used again when it is open) and a new receiveMessage is subscribed
loginHandler ==
  /\ clicks < MaxClicks
  /\ clicks' = clicks + 1
  /\ popup' = "open"
  /\ onMessage' = onMessage \cup {clicks + 1}
  /\ UNCHANGED <<codesIssued, posted, loginCalls, exceptOAuth>>

\* the user authorizes (granted) or not; the popup is redirected to
\* OAuthCallback, which posts the code, if there is one, and closes the popup
OAuthCallback(granted) ==
  /\ popup = "open"
  /\ granted => codesIssued < MaxCodes
  /\ codesIssued' = IF granted THEN codesIssued + 1 ELSE codesIssued
  /\ posted' = IF granted
               THEN posted \cup {[origin |-> VITE_DOMAIN_ADDRESS, code |-> codesIssued + 1]}
               ELSE posted
  /\ popup' = "closed"
  /\ UNCHANGED <<clicks, onMessage, loginCalls, exceptOAuth>>

\* a window of another origin posts a message to the app's window
PostForeign(data) ==
  /\ posted' = posted \cup {[origin |-> OtherOrigin, code |-> data]}
  /\ posted' # posted
  /\ UNCHANGED <<clicks, popup, codesIssued, onMessage, loginCalls, exceptOAuth>>

\* receiveMessage up to its first return: does this listener take the event
receiveMessage(event) ==
  /\ event.origin = VITE_DOMAIN_ADDRESS
  /\ event.code # NoCode

\* login({ code, redirectUri, rememberMe: false }), once per listener
loginCalled(n, event) == [i \in 1..n |-> event.code]

\* a message event is dispatched to every listener subscribed; a listener
\* that takes the event removes itself and calls login
Dispatch(event) ==
  /\ event \in posted
  /\ posted' = posted \ {event}
  /\ LET taking == {l \in onMessage : receiveMessage(event)}
     IN /\ onMessage' = onMessage \ taking
        /\ loginCalls' = loginCalls \o loginCalled(Cardinality(taking), event)
  /\ UNCHANGED <<clicks, popup, codesIssued, exceptOAuth>>

OAuthNext ==
  \/ loginHandler
  \/ \E granted \in BOOLEAN : OAuthCallback(granted)
  \/ \E data \in 0..MaxCodes : PostForeign(data)
  \/ \E event \in posted : Dispatch(event)

OAuthSpec == Init /\ [][OAuthNext]_vars

(* ============================ properties =============================== *)
RefreshInFlight == {m \in net : m.url = "/auth/refresh"}

\* running calls that took the else branch of line 834
Waited(p) == waitedOn[p] # 0

\* the waiter's continuation of line 862 has run
Resumed(p) == pc[p] = "retryW"

\* what the last call that returned was: a call that refreshed with success
\* and retried, or a call that waited for another call's refresh
ReturnedLeader == returned.refreshes > 0 /\ returned.sends = 2
ReturnedWaiter == returned.waited

\* C1: at most one /auth/refresh call is in flight at any time, and a call
\* that receives 401 while one is in flight parks on the mutex and sends no
\* refresh of its own.
C1_SingleRefreshInFlight ==
  /\ [](Cardinality(RefreshInFlight) <= 1)
  /\ [][\A p \in Procs :
          (pc[p] = "first" /\ first'[p] = "401" /\ RefreshInFlight # {})
            => /\ pc'[p] = "waitRetry"
               /\ refreshes'[p] = refreshes[p]
               /\ RefreshInFlight' = RefreshInFlight]_vars

C1_Witness ==
  \E p, q \in Procs : pc[p] = "refresh" /\ RefreshInFlight # {} /\ pc[q] = "waitRetry"

\* the original request of data request p is in flight while another data
\* request, answered 401, has its /auth/refresh call in flight, and no token
\* pair was issued since the application started: both requests were sent
\* before either was answered, with the one access token stored at the start
InFlightTogether(p) ==
  /\ pc[p] = "first"
  /\ issued = 1
  /\ localStorage[AUTH_KEYS.accessToken] = TokenPair(1).accessToken
  /\ \E q \in DataProcs : q # p /\ pc[q] = "refresh"

\* C2: when two data requests are in flight concurrently with the same
\* access token and the refresh call of one of them is made, that call is
\* the only one: the other request never issues /auth/refresh itself.
C2_ExactlyOneRefresh ==
  \A p \in DataProcs : [](InFlightTogether(p) => [](pc[p] # "refresh"))

\* C3: one call issues its own request at most twice and /auth/refresh at
\* most once; when the retry after a successful refresh is answered 401 the
\* call returns that 401 after two requests and one refresh.
C3_RetryOnce ==
  /\ \A p \in Procs : sends[p] <= 2 /\ refreshes[p] <= 1
  /\ returned.sends <= 2
  /\ returned.refreshes <= 1
  /\ (ReturnedLeader /\ returned.answer = "401") => returned.status = "401"

C3_Witness ==
  ReturnedLeader /\ returned.answer = "401" /\ returned.first = "401"

\* C10: a call whose first result is an error other than 401 issues its
\* request once, issues no refresh, waits for none, and returns that error;
\* a call that refreshes or waits for a refresh was answered 401.
C10_OnlyUnauthorizedRefreshes ==
  /\ \A p \in Procs :
       /\ first[p] \in {"none", "401"}
       /\ (refreshes[p] > 0 \/ Waited(p)) => first[p] = "401"
  /\ (returned.first \in ErrorStatuses) =>
       /\ returned.sends = 1
       /\ returned.refreshes = 0
       /\ ~returned.waited
       /\ returned.status = returned.first
  /\ (returned.refreshes > 0 \/ returned.waited) => returned.first = "401"

C10_Witness ==
  /\ returned.first \in ErrorStatuses \ {"500"}
  /\ holder # 0

\* C4: a logout dispatched after a failed refresh ends with both tokens
\* removed from localStorage and the API cache reset.
C4_LogoutClearsSession ==
  [][\A q \in LogoutProcs :
       (pc[q] # "done" /\ pc'[q] = "done")
         => /\ \A k \in DOMAIN localStorage' : localStorage'[k] = NoToken
            /\ cache' = {}]_vars

\* C5: when the refresh returns a token pair the call takes the retry
\* branch; in that step both tokens of the pair are in localStorage and the
\* retry that goes out carries the new access token; the call returns what
\* the retry was answered.
C5_TokensStoredBeforeRetry ==
  /\ [][\A p \in Procs :
          /\ (pc[p] = "refresh" /\ pc'[p] # "refresh" /\ issued' # issued)
               => pc'[p] = "retryL"
          /\ (pc[p] = "refresh" /\ pc'[p] = "retryL")
               => /\ issued' = issued + 1
                  /\ localStorage'[AUTH_KEYS.accessToken] = TokenPair(issued').accessToken
                  /\ localStorage'[AUTH_KEYS.refreshToken] = TokenPair(issued').refreshToken
                  /\ \E m \in net' \ net :
                       /\ m.from = p
                       /\ m.url = args[p].url
                       /\ m.headers = Bearer(TokenPair(issued').accessToken)]_vars
  /\ [](ReturnedLeader => returned.status = returned.answer)

C5_Witness ==
  ReturnedLeader /\ returned.status = "200" /\ cache # {}

C7_WaitersCompleteInOrder ==
  /\ [](ReturnedWaiter => returned.gate # "none")
  /\ [][\A i, j \in 1..Len(waitSeq) :
          ( /\ i < j
            /\ waitedOn[waitSeq[i]] = waitedOn[waitSeq[j]]
            /\ pc'[waitSeq[j]] = "done" )
          => pc'[waitSeq[i]] = "done"]_vars

\* C7 (amended): a waiter issues its retry, and so returns, only after the
\* refresh it waited for has resolved and its call has released the mutex,
\* and waiters issue their retries in the order in which they began to wait.
C7_WaitersResumeInOrder ==
  /\ \A p \in Procs :
       (Waited(p) /\ Resumed(p)) => (gate[p] # "none" /\ pc[waitedOn[p]] = "done")
  /\ ReturnedWaiter => returned.gate # "none"
  /\ \A i, j \in 1..Len(waitSeq) :
       (i < j /\ Resumed(waitSeq[j])) => Resumed(waitSeq[i])

C7_Witness ==
  \E i, j \in 1..Len(waitSeq) :
    /\ i < j
    /\ waitedOn[waitSeq[i]] = waitedOn[waitSeq[j]]
    /\ Resumed(waitSeq[i])
    /\ Resumed(waitSeq[j])

\* the mutex is held exactly by the call between acquire() and release()
HolderIsLeader ==
  \A p \in Procs : (holder = p) <=> (pc[p] \in {"refresh", "retryL"})

GateIdle == holder = 0 /\ waiters = <<>> /\ ready = <<>>

\* C8: an unlocked mutex has no waiter queued, and the gate is idle again
\* and again: whenever it is locked or has calls parked on it, it later is
\* unlocked with no call parked.
C8_GateReturnsToIdle ==
  /\ [](holder = 0 => waiters = <<>>)
  /\ []<>GateIdle

C8_Witness ==
  /\ GateIdle
  /\ \E q \in LogoutProcs : pc[q] = "first"
  /\ ReturnedWaiter
  /\ returned.gate = "fail"

\* C9: every request that goes out carries Authorization: Bearer <token>
\* for the access token localStorage holds at that moment, and no
\* Authorization header when it holds none.
C9_AuthorizationFollowsStore ==
  [][\A m \in net' \ net :
       IF localStorage'[AUTH_KEYS.accessToken] # NoToken
         THEN /\ m.headers.authorization
              /\ m.headers.bearer = localStorage'[AUTH_KEYS.accessToken]
         ELSE ~m.headers.authorization]_vars

C9_Witness ==
  \E m1, m2 \in net :
    /\ m1.headers.authorization
    /\ ~m2.headers.authorization
    /\ m2.url = "playlists"

\* C11: when the refresh call is answered with an error, or with no token
\* pair, the call that made it returns in that step the 401 of its own
\* request, for which handleErrors is not called (no toast), and the answer
\* acts as a refresh failure: logout is dispatched and the mutex released.
C11_RefreshErrorNotShown ==
  [][\A p \in Procs :
       (pc[p] = "refresh" /\ pc'[p] # "refresh" /\ issued' = issued)
         => /\ pc'[p] = "done"
            /\ returned'.status = "401"
            /\ ~returned'.handled
            /\ lastRefresh' = "fail"
            /\ holder' = 0
            /\ \E q \in LogoutProcs : pc[q] = "idle" /\ pc'[q] = "waitStart"
            /\ toasts' = toasts]_vars

\* a call returned after its refresh failed
C11_Witness ==
  /\ returned.refreshes = 1
  /\ returned.sends = 1
  /\ returned.status = "401"
  /\ ~returned.handled
  /\ lastRefresh = "fail"
  /\ \E q \in LogoutProcs : pc[q] # "idle"

\* handleErrors has run on an error with an HTTP status
Handled(codes) ==
  errPc # "call" /\ error.status.tag = "http" /\ error.status.code \in codes

\* C12: for an error with status 500..599 the one message shown is the
\* fixed server-error text, whatever the body, and the error itself is
\* written to the console only.
C12_ServerErrorGeneric ==
  Handled(500..599) =>
    /\ errPc = "returned"
    /\ toasts = <<ServerErrorText>>
    /\ console = <<[message |-> ServerErrorText, error |-> error]>>

C12_Witness ==
  /\ Handled({503})
  /\ error.data = WithDetail(Pad(1))
  /\ toasts = <<ServerErrorText>>

\* the 400 for which the improved case 400 returns without a toast
SuppressedRefresh ==
  /\ error.status.code = 400
  /\ isErrorWithDetailArray(error.data)
  /\ includes(firstDetail(error.data), refreshTokenWord)

\* the body has a non-empty errors array whose first element has a string detail
HasStringDetail(value) ==
  /\ hasProperty(value, "errors")
  /\ get(value, "errors").t = "array"
  /\ Len(get(value, "errors").items) > 0
  /\ hasProperty(get(value, "errors").items[1], "detail")
  /\ get(get(value, "errors").items[1], "detail").t = "string"

\* C13: for a 400 or 403 error that is not the suppressed refresh-token 400
\* one message is shown: the first detail, whole when it has at most
\* maxLength characters and cut to maxLength characters otherwise, when the
\* body has a non-empty errors array whose first element has a string
\* detail; the serialized body otherwise.
C13_ValidationMessage ==
  (Handled({400, 403}) /\ ~SuppressedRefresh) =>
    IF HasStringDetail(error.data)
      THEN LET d == firstDetail(error.data) IN
             /\ Len(toasts) = 1
             /\ toasts[1].t = "string"
             /\ Len(toasts[1].chars) <= maxLength
             /\ Len(d) <= maxLength => toasts[1].chars = d
             /\ Len(d) > maxLength =>
                  SubSeq(toasts[1].chars, 1, maxLength - 3) = SubSeq(d, 1, maxLength - 3)
      ELSE toasts = <<stringify(error.data)>>

\* ---- query cache ----
PageKey == serializeQueryArgs("fetchPlaylists", PageArgs)
UserKey == serializeQueryArgs("fetchPlaylists", UserArgs(TheUser))

\* the entries that provide "Playlist" and have a subscriber
PlaylistInUse(q) ==
  {k \in DOMAIN q : "Playlist" \in providesTags(k.endpointName) /\ subscribers(k, mounted, q) # {}}

\* the mutations invalidating "Playlist" whose response arrives in this step
Completing ==
  {r \in BagToSet(requests) :
     /\ r.kind = "mutation"
     /\ "Playlist" \in invalidatesTags(r.endpointName)
     /\ CopiesIn(r, requests') < CopiesIn(r, requests)}

UpToDate(k) == queries[k].data = PlaylistsResponse(queries[k].originalArgs, db)

\* no mutation is in flight: no optimistic patch is waiting for its response
Quiet == \A r \in BagToSet(requests) : r.kind # "mutation"

\* C14 as claimed: an entry that provides "Playlist", has a subscriber and
\* was fetched holds the data of the server once every mutation has
\* completed and no request of the entry is in flight.
C14_RefetchedHoldsNewData ==
  \A k \in PlaylistInUse(queries) :
    (Quiet /\ queries[k].data # Undefined /\ fetches(k, requests) = 0) => UpToDate(k)

C14_Fresh ==
  \A k \in PlaylistInUse(queries) :
    (Quiet /\ queries[k].status = "fulfilled" /\ fetches(k, requests) = 0) => UpToDate(k)

\* C14 amended: when the response of a mutation invalidating "Playlist"
\* arrives, every entry that provides "Playlist" and has a subscriber is
\* pending with one request in flight, and every entry that provides only
\* "Auth" is unchanged and no request of it is sent; once no mutation is in
\* flight, an entry in use whose last request succeeded and that has no
\* request in flight holds the data of the server.
C14_InvalidationRefetches ==
  [][/\ Completing # {} =>
          /\ \A k \in PlaylistInUse(queries) :
               /\ k \in DOMAIN queries'
               /\ queries'[k].status = "pending"
               /\ fetches(k, requests') = 1
          /\ \A k \in DOMAIN queries :
               providesTags(k.endpointName) = {"Auth"} =>
                 /\ k \in DOMAIN queries'
                 /\ queries'[k] = queries[k]
                 /\ fetches(k, requests') = fetches(k, requests)
     /\ C14_Fresh']_vars

\* the playlists of the user are requested again after an edit while the
\* profile, cached beside them, is left alone
C14_Witness ==
  /\ "ProfilePage" \in mounted
  /\ UserKey \in DOMAIN queries
  /\ queries[UserKey].status = "pending"
  /\ queries[UserKey].data # Undefined
  /\ ~UpToDate(UserKey)
  /\ queries[MeKey].status = "fulfilled"
  /\ fetches(UserKey, requests) = 1
  /\ BagCardinality(requests) = 1

\* the requests of a query endpoint that are in flight
calls(endpointName, reqs) ==
  LET S == {r \in BagToSet(reqs) : r.kind = "query" /\ r.endpointName = endpointName}
  IN BagCardinality([r \in S |-> reqs[r]])

\* C15: the subscriptions to one query key share one request: while the
\* entry of a key is pending exactly one request of the key is in flight,
\* never two, however many components subscribe meanwhile; useGetMeQuery()
\* of Header, MainPage and ProfilePage is one key, so that at most one
\* auth/me request is in flight. The subscribers read the one entry of the
\* key.
C15_OneNetworkCall ==
  /\ \A k \in DOMAIN queries :
       /\ fetches(k, requests) <= 1
       /\ queries[k].status = "pending" => fetches(k, requests) = 1
  /\ calls("getMe", requests) <= 1

\* Header and a page subscribe to getMe before its first request resolves
C15_Witness ==
  /\ MeKey \in DOMAIN queries
  /\ Cardinality(subscribers(MeKey, mounted, queries)) = 2
  /\ queries[MeKey].status = "pending"
  /\ queries[MeKey].data = Undefined
  /\ fetches(MeKey, requests) = 1

\* a response to updatePlaylist arrives in this step
UpdateAnswered ==
  \E r \in BagToSet(requests) :
    /\ r.kind = "mutation"
    /\ r.endpointName = "updatePlaylist"
    /\ CopiesIn(r, requests') < CopiesIn(r, requests)

\* C16: when the request of updatePlaylist fails, every fetchPlaylists entry
\* its optimistic patch changed and that is still cached holds exactly the
\* data it held before the patch.
C16_UndoRestores ==
  [][UpdateAnswered /\ rolledBack' # {} =>
       \A failure \in rolledBack' : \A pr \in failure.patchResults :
         pr.queryCacheKey \in DOMAIN queries' =>
           queries'[pr.queryCacheKey].data = pr.previous]_vars

\* the edit of the title "old" to "new" has failed and the entry of the
\* PlaylistsPage, patched meanwhile, shows "old" again
C16_Witness ==
  \E failure \in rolledBack : \E pr \in failure.patchResults :
    /\ failure.arg.body.title = "new"
    /\ pr.queryCacheKey = PageKey
    /\ pr.previous.data[1].attributes.title = "old"
    /\ updateRecipe(pr.previous, failure.arg.playlistId, failure.arg.body) # pr.previous
    /\ PageKey \in DOMAIN queries
    /\ queries[PageKey].data = pr.previous

\* the entry of k, unused before this step, has a subscriber after it
Resubscribed(k) ==
  /\ k \in DOMAIN timers
  /\ k \in DOMAIN queries'
  /\ subscribers(k, mounted', queries') # {}

\* an unused entry that gets a subscriber loses its timer, and when it holds
\* data it is left as it is and no request of it is sent
ServedFromCache(k) ==
  /\ k \notin DOMAIN timers'
  /\ queries[k].data # Undefined =>
       /\ queries'[k] = queries[k]
       /\ fetches(k, requests') = fetches(k, requests)

\* time passes for every unused entry alike and never beyond the expiry
TimersRun ==
  /\ \A k \in DOMAIN timers' : timers'[k] \in 0..keepUnusedDataFor
  /\ \A k \in DOMAIN timers' \ DOMAIN timers : timers'[k] = keepUnusedDataFor
  /\ \A k \in DOMAIN timers' \cap DOMAIN timers : timers'[k] \in {timers[k], timers[k] - 1}
  /\ \A k \in DOMAIN queries' : k \notin DOMAIN timers' => subscribers(k, mounted', queries') # {}

Starting ==
  {r \in BagToSet(requests') :
     /\ r.kind = "mutation"
     /\ r.endpointName = "updatePlaylist"
     /\ CopiesIn(r, requests') > CopiesIn(r, requests)}

\* the cached fetchPlaylists entries whose data contain the playlist
Containing(q, playlistId) ==
  {k \in DOMAIN q :
     /\ k.endpointName = "fetchPlaylists"
     /\ q[k].data # Undefined
     /\ findIndex(q[k].data.data, playlistId) # 0}

\* C18: when updatePlaylist starts, every cached fetchPlaylists entry that
\* contains the edited playlist, whatever its query arguments, shows the new
\* attributes before the server responds, and when the request fails every
\* entry patched is back at the data it held.
C18_EveryEntryPatched ==
  [][/\ \A r \in Starting : \A k \in Containing(queries, r.arg.playlistId) :
          LET items == queries'[k].data.data
              index == findIndex(items, r.arg.playlistId)
          IN \A f \in DOMAIN r.arg.body : items[index].attributes[f] = r.arg.body[f]
     /\ UpdateAnswered /\ rolledBack' # {} =>
          \A failure \in rolledBack' : \A pr \in failure.patchResults :
            pr.queryCacheKey \in DOMAIN queries' =>
              queries'[pr.queryCacheKey].data = pr.previous]_vars

\* the response of a login arrives in this step and it is a success
LoginFulfilled ==
  /\ \E r \in BagToSet(requests) :
       r.endpointName = "login" /\ CopiesIn(r, requests') < CopiesIn(r, requests)
  /\ issued' = issued + 1

\* the requests sent in this step
Sent == {r \in BagToSet(requests') : CopiesIn(r, requests') > CopiesIn(r, requests)}

\* C19: when a login succeeds the tokens of the response are in localStorage
\* and every request the invalidation of "Auth" sends is a getMe request that
\* carries the new access token; one is sent unless one is in flight.
C19_MeSentWithNewToken ==
  [][LoginFulfilled =>
       /\ localStorage' = setTokens(localStorage, TokenPair(issued'))
       /\ \A r \in Sent :
            /\ r.endpointName = "getMe"
            /\ r.headers = Bearer(TokenPair(issued').accessToken)
       /\ fetches(MeKey, requests') = 1
       /\ fetches(MeKey, requests) = 0 => Sent # {}]_vars

\* the logged-out user has logged in: the profile, requested before without
\* a token, is requested again with the access token of the login
C19_Witness ==
  /\ localStorage[AUTH_KEYS.accessToken] = TokenPair(2).accessToken
  /\ MeKey \in DOMAIN queries
  /\ queries[MeKey].status = "pending"
  /\ \E r \in BagToSet(requests) :
       /\ r.endpointName = "getMe"
       /\ r.headers = Bearer(TokenPair(2).accessToken)
  /\ \A r \in BagToSet(requests) : r.endpointName # "login"

\* no token is stored
SessionCleared(ls) == \A k \in DOMAIN ls : ls[k] = NoToken

\* C20: a logout call that returns without an error leaves no token in
\* localStorage and the API cache reset; one that returns an error leaves
\* localStorage and the cache as they were; a step of anything else never
\* removes the tokens.
C20_LogoutClearsOnSuccess ==
  [][/\ \A q \in LogoutProcs :
          (pc[q] # "done" /\ pc'[q] = "done") =>
            IF isError(returned'.status)
              THEN localStorage' = localStorage /\ cache' = cache
              ELSE SessionCleared(localStorage') /\ cache' = {}
     /\ (SessionCleared(localStorage') /\ ~SessionCleared(localStorage)) =>
          \E q \in LogoutProcs :
            pc[q] # "done" /\ pc'[q] = "done" /\ ~isError(returned'.status)]_vars

\* the logout request has failed: the call is over, the tokens are still in
\* localStorage and the cache still holds what was fetched
C20_Witness ==
  /\ \E q \in LogoutProcs : pc[q] = "done"
  /\ returned.url = "auth/logout"
  /\ isError(returned.status)
  /\ ~SessionCleared(localStorage)
  /\ cache # {}

\* the cached entries of fetchPlaylists whose data have loaded
Loaded == {k \in DOMAIN entries : entries[k].loaded}

\* the 'tracks.playlist-created' events delivered in this step
Delivered == events \ events'

\* entry k after the step holds the playlist first and what it held before
\* without n of its last items; the counts of meta follow
Shifted(k, id, n) ==
  LET before == entries[k].state
      after == entries'[k].state
  IN /\ after.data = <<id>> \o SubSeq(before.data, 1, Len(before.data) - n)
     /\ after.meta.totalCount = before.meta.totalCount + 1
     /\ after.meta.pagesCount = ceil(after.meta.totalCount, after.meta.pageSize)
     /\ after.meta.pagesCount * after.meta.pageSize >= after.meta.totalCount
     /\ (after.meta.pagesCount - 1) * after.meta.pageSize < after.meta.totalCount

\* C21 as claimed: on a 'tracks.playlist-created' event every loaded entry
\* gets the playlist as its first item, keeps its number of items and has
\* totalCount grown by 1 and pagesCount = ceil(totalCount / pageSize).
C21_CreatedKeepsLength ==
  [][\A id \in Delivered : \A k \in Loaded :
       /\ k \in DOMAIN entries'
       /\ Shifted(k, id, 1)
       /\ Len(entries'[k].state.data) = Len(entries[k].state.data)]_vars

\* C21 amended: the same, but an entry that holds no item has none to drop
\* and holds the one playlist afterwards.
C21_CreatedShiftsEntry ==
  [][\A id \in Delivered : \A k \in Loaded :
       /\ k \in DOMAIN entries'
       /\ IF entries[k].state.data = <<>>
            THEN Shifted(k, id, 0) /\ Len(entries'[k].state.data) = 1
            ELSE Shifted(k, id, 1) /\ Len(entries'[k].state.data) = Len(entries[k].state.data)]_vars

\* the first page held one playlist when the event of the second arrived:
\* it holds the second alone and counts two
C21_Witness ==
  /\ 1 \in Loaded
  /\ events = {}
  /\ entries[1].state.data = <<2>>
  /\ entries[1].state.meta = [totalCount |-> 2, pagesCount |-> 1, pageSize |-> pageSizeShown]

\* the callbacks registered on the socket for the entry of page k
ListenersOf(k) == {l \in listeners : l[2] = k}

\* C22: every callback registered on the socket belongs to a cached
\* fetchPlaylists entry whose first data have loaded, and a loaded entry has
\* its callbacks registered: an entry that was removed has none.
C22_ListenersOfLoadedEntries ==
  /\ \A l \in listeners : l[2] \in Loaded
  /\ \A k \in Loaded : ListenersOf(k) = subscribeToEvent(k, "loaded")
  /\ \A k \in DOMAIN entries \ Loaded : ListenersOf(k) = {}

\* the first page was loaded and left for the second: its entry is removed
\* and only the callbacks of the second page are on the socket while an
\* event is on its way
C22_Witness ==
  /\ shown = 2
  /\ DOMAIN entries = {2}
  /\ 2 \in Loaded
  /\ listeners = subscribeToEvent(2, "loaded")
  /\ events # {}

\* no playlist is listed twice
NoDuplicates(items) ==
  \A i, j \in 1..Len(items) : items[i] = items[j] => i = j

\* C28: a cached fetchPlaylists entry never holds two items with the same
\* playlist id, whatever the order of the refetch after createPlaylist and
\* the 'tracks.playlist-created' event of the same playlist.
C28_NoDuplicateIds ==
  \A k \in Loaded : NoDuplicates(entries[k].state.data)

\* C23: the debounced value changes only to the value typed last and only
\* when the delay has elapsed since that value was typed; and when the user
\* stops typing the debounced value becomes, and stays, the value typed last.
C23_Debounced ==
  /\ [][debounced' # debounced => (elapsed >= DelayTicks /\ debounced' = search)]_vars
  /\ [](\A h \in handlers : h.value = search /\ h.left = DelayTicks - elapsed)
  /\ (<>[][search' = search]_search) => <>[](debounced = search)

\* the user has typed two letters one after the other and has waited: the
\* debounced value has followed once
C23_Witness ==
  /\ search = "ab"
  /\ debounced = "ab"
  /\ handlers = {}
  /\ elapsed = DelayTicks

\* a request of fetchTracks for a next page is sent in this step
NextPageFetched == Len(requestedPages') > Len(requestedPages) /\ requestedPages # <<>>

\* a next page is requested only when hasNextPage holds and nothing is in flight
FetchedWhenAllowed == [][NextPageFetched => (hasNextPage /\ ~isFetching)]_vars

\* after the last page there is no next page
EndsAtPagesCount ==
  \A i \in 1..Len(loadedPages) :
    (i = Len(loadedPages) /\ loadedPages[i].pageParam >= loadedPages[i].meta.pagesCount)
      => ~hasNextPage

\* C24 as claimed: a next page is fetched only when hasNextPage holds and
\* nothing is in flight; the pages requested are 1, 2, ... in order, each
\* once and none beyond pagesCount; after page pagesCount hasNextPage is false.
C24_EachPageOnce ==
  /\ FetchedWhenAllowed
  /\ [](/\ \A i \in 1..Len(requestedPages) : requestedPages[i] = i
        /\ \A i \in 1..Len(loadedPages) :
             loadedPages[i].pageParam <= loadedPages[i].meta.pagesCount
        /\ EndsAtPagesCount)

\* C24 amended: the pages loaded are 1, 2, ... in order, each once; a page
\* is requested again only when its request has failed; page 1 is always
\* requested and every further page lies within the pagesCount of the page
\* loaded before it.
C24_PagesInOrder ==
  /\ FetchedWhenAllowed
  /\ [](/\ \A i \in 1..Len(loadedPages) : loadedPages[i].pageParam = i
        /\ requestedPages # <<>> => requestedPages[1] = initialPageParam
        /\ isFetching => fetchingPage = Len(loadedPages) + 1
        /\ \A i \in 1..(Len(requestedPages) - 1) :
             requestedPages[i + 1] \in {requestedPages[i], requestedPages[i] + 1}
        /\ requestedPages # <<>> =>
             requestedPages[Len(requestedPages)] \in {Len(loadedPages), Len(loadedPages) + 1}
        /\ \A i \in 2..Len(loadedPages) :
             loadedPages[i].pageParam <= loadedPages[i - 1].meta.pagesCount
        /\ (isFetching /\ loadedPages # <<>>) =>
             fetchingPage <= loadedPages[Len(loadedPages)].meta.pagesCount
        /\ EndsAtPagesCount)

\* all three pages of tracks are loaded and nothing more is to load
C24_Witness ==
  /\ Len(loadedPages) = 3
  /\ loadedPages[3].meta.pagesCount = 3
  /\ ~hasNextPage
  /\ ~isFetching

\* the page numbers of a result, in the order of the result
Numbers(pages) == SelectSeq(pages, LAMBDA x : x # Ellipsis)

\* the page numbers a result lists
Listed(pages) == {pages[i] : i \in 1..Len(pages)} \ {Ellipsis}

\* an ellipsis stands exactly between two page numbers that are not
\* consecutive, and nowhere else
EllipsisWhereSkipped(pages) ==
  /\ \A i \in 1..Len(pages) :
       pages[i] = Ellipsis =>
         /\ 1 < i /\ i < Len(pages)
         /\ pages[i - 1] # Ellipsis /\ pages[i + 1] # Ellipsis
         /\ pages[i + 1] > pages[i - 1] + 1
  /\ \A i \in 1..(Len(pages) - 1) :
       (pages[i] # Ellipsis /\ pages[i + 1] # Ellipsis) => pages[i + 1] = pages[i] + 1

\* C25: getPaginationPages returns [] when pagesCount <= 1; otherwise, for a
\* currentPage of 1..pagesCount, the result starts with 1, ends with
\* pagesCount, lists page numbers in strictly increasing order, contains
\* currentPage and its neighbours in range, and has an ellipsis exactly
\* where a page number is skipped.
C25_PaginationPages ==
  pagination.rendered =>
    LET pages == pagination.pages
        currentPage == pagination.currentPage
        pagesCount == pagination.pagesCount
    IN /\ pagesCount <= 1 => pages = <<>>
       /\ (pagesCount > 1 /\ currentPage <= pagesCount) =>
            /\ pages[1] = 1
            /\ pages[Len(pages)] = pagesCount
            /\ \A i, j \in 1..Len(Numbers(pages)) :
                 i < j => Numbers(pages)[i] < Numbers(pages)[j]
            /\ ({currentPage - 1, currentPage, currentPage + 1} \cap (1..pagesCount))
                 \subseteq Listed(pages)
            /\ Listed(pages) \subseteq 1..pagesCount
            /\ EllipsisWhereSkipped(pages)

\* page 5 of 9: both ellipses are shown
C25_Witness ==
  /\ pagination.rendered
  /\ pagination.currentPage = 5
  /\ pagination.pagesCount = 9
  /\ pagination.pages = <<1, Ellipsis, 4, 5, 6, Ellipsis, 9>>

\* the list shown answers the args of the page and no refetch is due
ListSettled == listData.loaded /\ ~listStale /\ listData.args = listArgs

\* C26: a search or a change of the page size resets currentPage to 1, and
\* after any page clicks, searches, page-size changes, creations and
\* deletions currentPage is within 1..pagesCount of the result shown.
C26_CurrentPageInRange ==
  ListSettled => listState.currentPage \in 1..pagesCountProp

\* the handlers of the search and of the page size do set currentPage to 1
C26_Resets ==
  [][(listState'.search # listState.search \/ listState'.pageSize # listState.pageSize)
       => listState'.currentPage = 1]_vars

\* the only playlist of page 2 was deleted and the list was fetched anew
C26_Witness ==
  /\ ListSettled
  /\ listState.currentPage = 2
  /\ pagesCountProp = 1
  /\ listData.data = <<>>
  /\ Len(listServer) = 2

\* how often login was called with a code
CallsWith(code) == Cardinality({i \in 1..Len(loginCalls) : loginCalls[i] = code})

\* C27: for any number of clicks on the login button, login is called at
\* most once for each authorization code the popup has sent.
C27_LoginOncePerCode == \A code \in 1..MaxCodes : CallsWith(code) <= 1

\* login is called only with codes the server issued to the popup, never
\* with the data of a message of another origin
C27_OnlyOwnOrigin ==
  /\ \A i \in 1..Len(loginCalls) : loginCalls[i] \in 1..codesIssued
  /\ [][\A event \in posted :
          (event.origin # VITE_DOMAIN_ADDRESS /\ event \notin posted')
            => (loginCalls' = loginCalls /\ onMessage' = onMessage)]_vars

\* two clicks, one authorization: both listeners have called login
C27_Witness ==
  /\ clicks = 2
  /\ codesIssued = 1
  /\ loginCalls = <<1, 1>>
  /\ onMessage = {}

====
